---- MODULE Spec2Model ----
(***************************************************************************)
(* Model of the YNAB MCP server: the resilient API client                  *)
(* (internal/ynab, Client.doRequest) and the aggregation helpers           *)
(* (internal/tools).                                                       *)
(***************************************************************************)
EXTENDS Integers, Sequences, FiniteSets, TLC

VARIABLES
    \* ---- Client.doRequest, one entry per call in progress ----
    pc,        \* call -> "idle" | "loop" | "send" | "done"
    req,       \* call -> the arguments of the call
    attempt,   \* call -> the loop variable `attempt`
    lastErr,   \* call -> the local `lastErr`
    delays,    \* call -> sequence of the time.Sleep durations taken, in seconds
    log,       \* call -> sequence of the outcomes of the HTTP attempts made
    ret,       \* call -> the value returned
    \* ---- aggregation helpers ----
    txs,       \* the transaction list handed to the aggregation functions
    aggOut,    \* the value the last aggregation returned
    \* ---- get_account_balances ----
    accounts,  \* the account list client.ListAccounts returned
    balOut,    \* the result the handler built from it
    \* ---- validateDateRange ----
    sinceDate, \* its arguments
    untilDate,
    dateOut,   \* the error it returned
    \* ---- tool handlers ----
    tool,       \* the tool invoked, "none" before the invocation
    argsIsMap,  \* whether request.Params.Arguments is a map
    callArgs,   \* the argument bag
    issued,     \* the operations the handler asked of the client, in order
    result,     \* the CallToolResult returned
    \* ---- GetAccount, GetCategory, GetPayee ----
    lookup,     \* the lookup made: operation, list result, requested ID
    lookupRet,  \* the (entity, error) pair it returned
    \* ---- get_payee_summary ----
    payeeSummaries,  \* the summaries aggregateByPayee made, in map order
    topNArg,         \* args["top_n"]
    payees,          \* the payees get_payee_summary shows
    payeeDone,       \* whether the list was limited
    \* ---- listing tools ----
    listing,  \* the listing tool invoked and the list the upstream returned
    report,   \* what the tool shows and counts
    \* ---- amount conversions ----
    roundTrip,  \* an amount, its milliunits and the display value made of them
    \* ---- HTTP transport ----
    authToken,  \* the auth token ServeHTTP was started with
    httpReq,    \* the request: its path and Authorization values
    httpResp,   \* the status written and the handler that wrote it
    \* ---- start-up ----
    startup,  \* the flags, environment and config file of a run of serve
    started,  \* what the run serves, or why it does not
    \* ---- the sorted category list ----
    categorySummaries,  \* the map aggregateByCategory returned, in the order the range loop yields it
    categoryList,       \* the sorted category list of get_spending_by_category
    categoryDone,       \* the category list was built
    \* ---- the month window ----
    clock,   \* the day time.Now() falls on
    window,  \* the months getLastNMonths returned
    \* ---- the date window of the summaries ----
    ranged   \* the date window, the filtered list and the buckets of a summary tool

clientVars == <<pc, req, attempt, lastErr, delays, log, ret>>

aggVars == <<txs, aggOut>>

balVars == <<accounts, balOut>>

dateVars == <<sinceDate, untilDate, dateOut>>

toolVars == <<tool, argsIsMap, callArgs, issued, result>>

lookupVars == <<lookup, lookupRet>>

payeeVars == <<payeeSummaries, topNArg, payees, payeeDone>>

listingVars == <<listing, report>>

roundTripVars == <<roundTrip>>

httpVars == <<authToken, httpReq, httpResp>>

startupVars == <<startup, started>>

categoryVars == <<categorySummaries, categoryList, categoryDone>>

windowVars == <<clock, window>>

rangedVars == <<ranged>>

\* what the steps of each part leave alone
notClientVars == <<aggVars, balVars, dateVars, toolVars, lookupVars, payeeVars, listingVars, roundTripVars, httpVars, startupVars, categoryVars, windowVars, rangedVars>>

notAggVars == <<clientVars, balVars, dateVars, toolVars, lookupVars, payeeVars, listingVars, roundTripVars, httpVars, startupVars, categoryVars, windowVars, rangedVars>>

notBalVars == <<clientVars, aggVars, dateVars, toolVars, lookupVars, payeeVars, listingVars, roundTripVars, httpVars, startupVars, categoryVars, windowVars, rangedVars>>

notDateVars == <<clientVars, aggVars, balVars, toolVars, lookupVars, payeeVars, listingVars, roundTripVars, httpVars, startupVars, categoryVars, windowVars, rangedVars>>

notToolVars == <<clientVars, aggVars, balVars, dateVars, lookupVars, payeeVars, listingVars, roundTripVars, httpVars, startupVars, categoryVars, windowVars, rangedVars>>

notLookupVars == <<clientVars, aggVars, balVars, dateVars, toolVars, payeeVars, listingVars, roundTripVars, httpVars, startupVars, categoryVars, windowVars, rangedVars>>

notPayeeVars == <<clientVars, aggVars, balVars, dateVars, toolVars, lookupVars, listingVars, roundTripVars, httpVars, startupVars, categoryVars, windowVars, rangedVars>>

notListingVars == <<clientVars, aggVars, balVars, dateVars, toolVars, lookupVars, payeeVars, roundTripVars, httpVars, startupVars, categoryVars, windowVars, rangedVars>>

notRoundTripVars == <<clientVars, aggVars, balVars, dateVars, toolVars, lookupVars, payeeVars, listingVars, httpVars, startupVars, categoryVars, windowVars, rangedVars>>

notHttpVars == <<clientVars, aggVars, balVars, dateVars, toolVars, lookupVars, payeeVars, listingVars, roundTripVars, startupVars, categoryVars, windowVars, rangedVars>>

notStartupVars == <<clientVars, aggVars, balVars, dateVars, toolVars, lookupVars, payeeVars, listingVars, roundTripVars, httpVars, categoryVars, windowVars, rangedVars>>

notCategoryVars == <<clientVars, aggVars, balVars, dateVars, toolVars, lookupVars, payeeVars, listingVars, roundTripVars, httpVars, startupVars, windowVars, rangedVars>>

notWindowVars == <<clientVars, aggVars, balVars, dateVars, toolVars, lookupVars, payeeVars, listingVars, roundTripVars, httpVars, startupVars, categoryVars, rangedVars>>

notRangedVars == <<clientVars, aggVars, balVars, dateVars, toolVars, lookupVars, payeeVars, listingVars, roundTripVars, httpVars, startupVars, categoryVars, windowVars>>

vars == <<pc, req, attempt, lastErr, delays, log, ret, txs, aggOut,
          accounts, balOut, sinceDate, untilDate, dateOut, tool, argsIsMap,
          callArgs, issued, result, lookup, lookupRet, payeeSummaries,
          topNArg, payees, payeeDone, listing, report, roundTrip,
          authToken, httpReq, httpResp, startup, started,
          categorySummaries, categoryList, categoryDone, clock, window,
          ranged>>

(***************************************************************************)
(*                        Client.doRequest                                 *)
(***************************************************************************)

maxRetries == 3

StatusTooManyRequests == 429

\* Statuses the upstream may answer with.
Statuses == {200, 404, 429, 500}

\* Causes of a failure of httpClient.Do and of io.ReadAll.
NetCauses == {"timeout", "connection refused"}
ReadCauses == {"unexpected EOF"}

\* The detail texts an upstream error body may carry ("" = absent or empty).
Details == {"", "transaction not found", "invalid date"}

\* A response body, by what json.Unmarshal makes of it: errParse = it
\* unmarshals into APIErrorResponse without error, detail = the value
\* Error.Detail holds afterwards, dataParse = it unmarshals into the caller's
\* result without error.
Bodies == [errParse : BOOLEAN, detail : Details, dataParse : BOOLEAN]

NoBody == [errParse |-> FALSE, detail |-> "", dataParse |-> FALSE]

\* What one HTTP attempt can end in: httpClient.Do fails; Do succeeds and
\* io.ReadAll fails (the status line was received); Do and ReadAll succeed.
Outcomes ==
    [kind : {"neterr"}, cause : NetCauses, status : {0}, body : {NoBody}]
    \cup [kind : {"readerr"}, cause : ReadCauses, status : Statuses, body : {NoBody}]
    \cup [kind : {"resp"}, cause : {""}, status : Statuses, body : Bodies]

\* The arguments of a call: get passes no body, post and put pass one; a path
\* built from a caller-supplied ID may fail http.NewRequest; result may be nil.
Requests ==
    { r \in [method : {"GET", "POST", "PUT"}, hasBody : BOOLEAN,
             pathOK : BOOLEAN, hasResult : BOOLEAN] :
        r.hasBody = (r.method # "GET") }

NoRequest == [method |-> "GET", hasBody |-> FALSE, pathOK |-> TRUE, hasResult |-> FALSE]

\* error values
NilErr == [kind |-> "nil", cause |-> "", status |-> 0, detail |-> "", attempts |-> 0]

MkErr(k, c) == [kind |-> k, cause |-> c, status |-> 0, detail |-> "", attempts |-> 0]

\* The value returned by doRequest: nil or an error, plus whether the
\* caller's result was filled from the body.
RetNone == [err |-> NilErr, wraps |-> NilErr, decoded |-> FALSE]

RetOK(dec) == [err |-> NilErr, wraps |-> NilErr, decoded |-> dec]

RetErr(e, w) == [err |-> e, wraps |-> w, decoded |-> FALSE]

RECURSIVE Pow2(_)
Pow2(n) == IF n <= 0 THEN 1 ELSE 2 * Pow2(n - 1)

\* (mutant of LoopCond: the loop test off by one)
LoopCondInclusive(a) == a <= maxRetries

\* for attempt := 0; attempt < maxRetries; attempt++
LoopCond(a) == a < maxRetries

\* (mutant of BackoffSeconds: the shift not reduced by one)
BackoffSecondsUnshifted(a) == Pow2(a)

\* backoff := time.Duration(1<<uint(attempt-1)) * time.Second, in seconds
BackoffSeconds(a) == Pow2(a - 1)

\* (mutant of IsRetryable: server errors retried as well)
IsRetryableOr5xx(o) ==
    \/ o.kind = "neterr"
    \/ o.kind = "readerr"
    \/ o.kind = "resp" /\ (o.status = StatusTooManyRequests \/ o.status >= 500)

\* The three `continue` branches: Do failed, ReadAll failed, status 429.
IsRetryable(o) ==
    \/ o.kind = "neterr"
    \/ o.kind = "readerr"
    \/ o.kind = "resp" /\ o.status = StatusTooManyRequests

\* (mutant of TransientErr: lastErr set once and never overwritten)
TransientErrKeepFirst(prev, o) ==
    IF prev.kind # "nil" THEN prev
    ELSE IF o.kind = "neterr" THEN MkErr("request failed", o.cause)
    ELSE IF o.kind = "readerr" THEN MkErr("failed to read response", o.cause)
    ELSE MkErr("rate limit exceeded", "")

\* The value assigned to lastErr on a `continue` branch.
TransientErr(prev, o) ==
    IF o.kind = "neterr" THEN MkErr("request failed", o.cause)
    ELSE IF o.kind = "readerr" THEN MkErr("failed to read response", o.cause)
    ELSE MkErr("rate limit exceeded", "")

\* (mutant of APIError: the unmarshal error is not looked at)
APIErrorIgnoringParse(status, body) ==
    IF body.detail # ""
    THEN [kind |-> "YNAB API error (status): detail", cause |-> "",
          status |-> status, detail |-> body.detail, attempts |-> 0]
    ELSE [kind |-> "YNAB API error: status", cause |-> "",
          status |-> status, detail |-> "", attempts |-> 0]

\* if resp.StatusCode >= 400 { ... }: "YNAB API error (%d): %s" when the body
\* unmarshals into APIErrorResponse and Error.Detail is not empty, else
\* "YNAB API error: status %d".
APIError(status, body) ==
    IF body.errParse /\ body.detail # ""
    THEN [kind |-> "YNAB API error (status): detail", cause |-> "",
          status |-> status, detail |-> body.detail, attempts |-> 0]
    ELSE [kind |-> "YNAB API error: status", cause |-> "",
          status |-> status, detail |-> "", attempts |-> 0]

\* (mutant of Terminal: the body unmarshalled whether or not a result is
\* wanted)
TerminalAlwaysParsing(r, o) ==
    IF o.status >= 400 THEN RetErr(APIError(o.status, o.body), NilErr)
    ELSE IF o.body.dataParse THEN RetOK(r.hasResult)
    ELSE RetErr(MkErr("failed to parse response", "json"), NilErr)

\* What a fully read response that is not a 429 makes the call return.
Terminal(r, o) ==
    IF o.status >= 400 THEN RetErr(APIError(o.status, o.body), NilErr)
    ELSE IF r.hasResult
         THEN IF o.body.dataParse THEN RetOK(TRUE)
              ELSE RetErr(MkErr("failed to parse response", "json"), NilErr)
         ELSE RetOK(FALSE)

\* fmt.Errorf("request failed after %d attempts: %w", maxRetries, lastErr)
ExhaustedError(last) ==
    RetErr([kind |-> "request failed after attempts", cause |-> "",
            status |-> 0, detail |-> "", attempts |-> maxRetries], last)

\* A caller enters doRequest (through get, post or put).
Call(c) ==
    /\ pc[c] \in {"idle", "done"}
    /\ \E r \in Requests : req' = [req EXCEPT ![c] = r]
    /\ pc' = [pc EXCEPT ![c] = "loop"]
    /\ attempt' = [attempt EXCEPT ![c] = 0]
    /\ lastErr' = [lastErr EXCEPT ![c] = NilErr]
    /\ delays' = [delays EXCEPT ![c] = <<>>]
    /\ log' = [log EXCEPT ![c] = <<>>]
    /\ ret' = [ret EXCEPT ![c] = RetNone]
    /\ UNCHANGED notClientVars

\* (mutant of Backoff: the sleep taken under a lock of the client, which no
\* other call may hold an HTTP attempt under)
BackoffExclusive(c) ==
    /\ pc[c] = "loop"
    /\ LoopCond(attempt[c])
    /\ \A d \in DOMAIN pc \ {c} : pc[d] # "send"
    /\ delays' = [delays EXCEPT ![c] =
                    IF attempt[c] > 0
                    THEN Append(@, BackoffSeconds(attempt[c]))
                    ELSE @]
    /\ pc' = [pc EXCEPT ![c] = "send"]
    /\ UNCHANGED <<req, attempt, lastErr, log, ret>>
    /\ UNCHANGED notClientVars

\* Top of a loop iteration: the loop test, and the backoff sleep of every
\* iteration but the first.
Backoff(c) ==
    /\ pc[c] = "loop"
    /\ LoopCond(attempt[c])
    /\ delays' = [delays EXCEPT ![c] =
                    IF attempt[c] > 0
                    THEN Append(@, BackoffSeconds(attempt[c]))
                    ELSE @]
    /\ pc' = [pc EXCEPT ![c] = "send"]
    /\ UNCHANGED <<req, attempt, lastErr, log, ret>>
    /\ UNCHANGED notClientVars

\* The rest of the iteration: build the request, httpClient.Do, io.ReadAll,
\* and the classification of the outcome.
Send(c) ==
    /\ pc[c] = "send"
    /\ IF ~req[c].pathOK
       THEN \* http.NewRequest fails: return without an HTTP attempt
            /\ ret' = [ret EXCEPT ![c] = RetErr(MkErr("failed to create request", "url"), NilErr)]
            /\ pc' = [pc EXCEPT ![c] = "done"]
            /\ UNCHANGED <<attempt, lastErr, log>>
       ELSE \E o \in Outcomes :
            /\ log' = [log EXCEPT ![c] = Append(@, o)]
            /\ IF IsRetryable(o)
               THEN /\ lastErr' = [lastErr EXCEPT ![c] = TransientErr(@, o)]
                    /\ attempt' = [attempt EXCEPT ![c] = @ + 1]
                    /\ pc' = [pc EXCEPT ![c] = "loop"]
                    /\ UNCHANGED ret
               ELSE /\ ret' = [ret EXCEPT ![c] = Terminal(req[c], o)]
                    /\ pc' = [pc EXCEPT ![c] = "done"]
                    /\ UNCHANGED <<attempt, lastErr>>
    /\ UNCHANGED <<req, delays>>
    /\ UNCHANGED notClientVars

\* (mutant of Exhausted: a further backoff slept before the return)
ExhaustedAfterSleep(c) ==
    /\ pc[c] = "loop"
    /\ ~LoopCond(attempt[c])
    /\ delays' = [delays EXCEPT ![c] = Append(@, BackoffSeconds(attempt[c]))]
    /\ ret' = [ret EXCEPT ![c] = ExhaustedError(lastErr[c])]
    /\ pc' = [pc EXCEPT ![c] = "done"]
    /\ UNCHANGED <<req, attempt, lastErr, log>>
    /\ UNCHANGED notClientVars

\* The loop test fails: the return after the loop.
Exhausted(c) ==
    /\ pc[c] = "loop"
    /\ ~LoopCond(attempt[c])
    /\ ret' = [ret EXCEPT ![c] = ExhaustedError(lastErr[c])]
    /\ pc' = [pc EXCEPT ![c] = "done"]
    /\ UNCHANGED <<req, attempt, lastErr, delays, log>>
    /\ UNCHANGED notClientVars

(***************************************************************************)
(*                          float64 arithmetic                             *)
(*                                                                         *)
(* The display amounts are Go float64 values.  A finite float64 of the     *)
(* range the model uses is sign * mag * 2^-FracBits, with mag a natural    *)
(* number of at most 53 significant bits, kept as NumLimbs limbs of        *)
(* LimbBits bits, least significant first.  Every operation computes the   *)
(* exact result and rounds it to 53 significant bits, to nearest, ties to  *)
(* even, as IEEE 754 does.                                                 *)
(***************************************************************************)

LimbBits == 20

LimbBase == 1048576

NumLimbs == 5

FracBits == 64

MantissaBits == 53

Limbs == 1..NumLimbs

\* the limbs f[1], ..., f[n] as a tuple
RECURSIVE TupleOf(_, _)
TupleOf(f, n) == IF n = 0 THEN <<>> ELSE Append(TupleOf(f, n - 1), f[n])

Mag(f) == TupleOf(f, NumLimbs)

MagZero == Mag([i \in Limbs |-> 0])

\* n * 2^FracBits, for 0 <= n < 2^27
MagFromInt(n) ==
    Mag([i \in Limbs |->
            IF i = 4 THEN (n * 16) % LimbBase
            ELSE IF i = 5 THEN (n * 16) \div LimbBase
            ELSE 0])

\* carry into limb i of a + b
RECURSIVE CarryInto(_, _, _)
CarryInto(a, b, i) ==
    IF i = 1 THEN 0 ELSE (a[i - 1] + b[i - 1] + CarryInto(a, b, i - 1)) \div LimbBase

MagAdd(a, b) ==
    Mag([i \in Limbs |-> (a[i] + b[i] + CarryInto(a, b, i)) % LimbBase])

\* borrow from limb i of a - b, for a >= b
RECURSIVE BorrowFrom(_, _, _)
BorrowFrom(a, b, i) ==
    IF i = 1 THEN 0
    ELSE IF a[i - 1] - b[i - 1] - BorrowFrom(a, b, i - 1) < 0 THEN 1 ELSE 0

MagSub(a, b) ==
    Mag([i \in Limbs |-> (a[i] - b[i] - BorrowFrom(a, b, i) + LimbBase) % LimbBase])

\* a < b, compared from the most significant limb down
RECURSIVE MagLessFrom(_, _, _)
MagLessFrom(a, b, i) ==
    IF i = 0 THEN FALSE
    ELSE IF a[i] # b[i] THEN a[i] < b[i]
    ELSE MagLessFrom(a, b, i - 1)

MagLess(a, b) == MagLessFrom(a, b, NumLimbs)

RECURSIVE SmallBitLen(_)
SmallBitLen(n) == IF n = 0 THEN 0 ELSE 1 + SmallBitLen(n \div 2)

RECURSIVE BitLenFrom(_, _)
BitLenFrom(a, i) ==
    IF i = 0 THEN 0
    ELSE IF a[i] # 0 THEN LimbBits * (i - 1) + SmallBitLen(a[i])
    ELSE BitLenFrom(a, i - 1)

\* number of significant bits of a
BitLen(a) == BitLenFrom(a, NumLimbs)

\* a with its d low bits cleared
MagTrunc(a, d) ==
    Mag([i \in Limbs |->
            IF LimbBits * i <= d THEN 0
            ELSE IF LimbBits * (i - 1) >= d THEN a[i]
            ELSE a[i] - (a[i] % Pow2(d - LimbBits * (i - 1)))])

\* 2^d
MagPow2(d) ==
    Mag([i \in Limbs |-> IF i = 1 + (d \div LimbBits) THEN Pow2(d % LimbBits) ELSE 0])

\* bit d of a
MagBit(a, d) == (a[1 + (d \div LimbBits)] \div Pow2(d % LimbBits)) % 2

\* a (followed by a non-zero tail when sticky) rounded to MantissaBits
\* significant bits, to nearest, ties to even
RoundMantissa(a, sticky) ==
    LET d == BitLen(a) - MantissaBits IN
    IF d <= 0 THEN a
    ELSE LET kept == MagTrunc(a, d)
             low  == MagSub(a, kept)
             half == MagPow2(d - 1)
             up   == MagAdd(kept, MagPow2(d))
         IN  IF MagLess(low, half) THEN kept
             ELSE IF MagLess(half, low) \/ sticky THEN up
             ELSE IF MagBit(a, d) = 1 THEN up
             ELSE kept

\* quotient limb i and the remainder carried out of it, of a divided by k
RECURSIVE RemInto(_, _, _)
RemInto(a, k, i) ==
    IF i = NumLimbs THEN 0
    ELSE (RemInto(a, k, i + 1) * LimbBase + a[i + 1]) % k

MagDivSmall(a, k) ==
    Mag([i \in Limbs |-> (RemInto(a, k, i) * LimbBase + a[i]) \div k])

MagRemSmall(a, k) == (RemInto(a, k, 1) * LimbBase + a[1]) % k

Float(isNeg, m) == [neg |-> isNeg, mag |-> m]

FZero == Float(FALSE, MagZero)

\* x + y
FAdd(x, y) ==
    IF x.neg = y.neg
    THEN Float(x.neg, RoundMantissa(MagAdd(x.mag, y.mag), FALSE))
    ELSE IF x.mag = y.mag THEN FZero
    ELSE IF MagLess(y.mag, x.mag)
         THEN Float(x.neg, RoundMantissa(MagSub(x.mag, y.mag), FALSE))
         ELSE Float(y.neg, RoundMantissa(MagSub(y.mag, x.mag), FALSE))

\* -x
FNeg(x) == Float(~x.neg, x.mag)

\* x - y
FSub(x, y) == FAdd(x, FNeg(y))

\* x < 0
FNegative(x) == x.neg /\ x.mag # MagZero

\* x == y (the two zeros are equal)
FEq(x, y) == x.mag = y.mag /\ (x.neg = y.neg \/ x.mag = MagZero)

Abs(n) == IF n < 0 THEN -n ELSE n

\* func MilliunitsToFloat(milliunits int64) float64 {
\*     return float64(milliunits) / 1000.0 }
MilliunitsToFloat(milliunits) ==
    LET num == MagFromInt(Abs(milliunits)) IN
    Float(milliunits < 0,
          RoundMantissa(MagDivSmall(num, 1000), MagRemSmall(num, 1000) # 0))

\* carry into limb i of a * k, for k < 2^11
RECURSIVE MulCarryInto(_, _, _)
MulCarryInto(a, k, i) ==
    IF i = 1 THEN 0 ELSE (a[i - 1] * k + MulCarryInto(a, k, i - 1)) \div LimbBase

MagMulSmall(a, k) ==
    Mag([i \in Limbs |-> (a[i] * k + MulCarryInto(a, k, i)) % LimbBase])

\* x * k, for a whole k < 2^11
FMulSmall(x, k) == Float(x.neg, RoundMantissa(MagMulSmall(x.mag, k), FALSE))

\* int64(x): the whole part of x, for |x| < 2^31
Int64Of(x) ==
    LET whole == (x.mag[4] + x.mag[5] * LimbBase) \div 16 IN
    IF x.neg THEN -whole ELSE whole

\* func FloatToMilliunits(amount float64) int64 {
\*     return int64(amount * 1000) }
FloatToMilliunits(amount) == Int64Of(FMulSmall(amount, 1000))


(***************************************************************************)
(*            Dates: parseDate, getMonthString, validateDateRange          *)
(*                                                                         *)
(* A date string is the sequence of its characters.                        *)
(***************************************************************************)

DigitChars == <<"0", "1", "2", "3", "4", "5", "6", "7", "8", "9">>

IsDigit(ch) == \E i \in 1..10 : DigitChars[i] = ch

DigitVal(ch) == (CHOOSE i \in 1..10 : DigitChars[i] = ch) - 1

\* the value of the digits s[from..to]
RECURSIVE Atoi(_, _, _)
Atoi(s, from, to) ==
    IF to < from THEN 0 ELSE 10 * Atoi(s, from, to - 1) + DigitVal(s[to])

AllDigits(s, from, to) == \A i \in from..to : IsDigit(s[i])

isLeap(year) == year % 4 = 0 /\ (year % 100 # 0 \/ year % 400 = 0)

\* time.daysIn
daysIn(month, year) ==
    IF month = 2 THEN (IF isLeap(year) THEN 29 ELSE 28)
    ELSE IF month \in {4, 6, 9, 11} THEN 30
    ELSE 31

\* number of days of the months before `month` in `year`
RECURSIVE daysBefore(_, _)
daysBefore(month, year) ==
    IF month <= 1 THEN 0 ELSE daysBefore(month - 1, year) + daysIn(month - 1, year)

\* number of leap years in 0 .. year-1
LeapsBefore(year) ==
    IF year = 0 THEN 0
    ELSE (year - 1) \div 4 - (year - 1) \div 100 + (year - 1) \div 400 + 1

\* The instant of a time.Time at midnight UTC, in days since 0000-01-01.
AbsDays(year, month, day) ==
    365 * year + LeapsBefore(year) + daysBefore(month, year) + (day - 1)

NoTime == [ok |-> FALSE, year |-> 0, month |-> 0, day |-> 0, abs |-> 0]

\* (mutant of Before: equal instants taken as before)
NotAfter(t, u) == t.abs <= u.abs

\* func (t Time) Before(u Time) bool
Before(t, u) == t.abs < u.abs

\* The largest time.Duration (1<<63 - 1 nanoseconds), in whole hours.
maxDurationHours == 2562047

\* func (t Time) Sub(u Time) Duration, in hours: the difference, or the
\* largest or smallest Duration when the difference does not fit.
Sub(t, u) ==
    LET hours == 24 * (t.abs - u.abs) IN
    IF hours > maxDurationHours THEN maxDurationHours
    ELSE IF hours < -maxDurationHours THEN -maxDurationHours
    ELSE hours

\* time.Parse("2006-01-02", s): four digits, "-", two digits, "-", two
\* digits and nothing else; month in 1..12; day in 1..daysIn(month, year).
TimeParse(s) ==
    IF /\ Len(s) = 10
       /\ AllDigits(s, 1, 4) /\ s[5] = "-"
       /\ AllDigits(s, 6, 7) /\ s[8] = "-"
       /\ AllDigits(s, 9, 10)
    THEN LET year  == Atoi(s, 1, 4)
             month == Atoi(s, 6, 7)
             day   == Atoi(s, 9, 10)
         IN  IF month >= 1 /\ month <= 12 /\ day >= 1 /\ day <= daysIn(month, year)
             THEN [ok |-> TRUE, year |-> year, month |-> month, day |-> day,
                   abs |-> AbsDays(year, month, day)]
             ELSE NoTime
    ELSE NoTime

\* func parseDate(dateStr string) (time.Time, error)
parseDate(dateStr) ==
    IF dateStr = <<>> THEN NoTime ELSE TimeParse(dateStr)

\* the error of parseDate
parseDateErr(dateStr) ==
    IF dateStr = <<>> THEN "date string is empty"
    ELSE IF ~TimeParse(dateStr).ok THEN "invalid date format, expected YYYY-MM-DD"
    ELSE "nil"

\* func validateDateRange(sinceDate, untilDate string) error
validateDateRange(since, until) ==
    IF ~parseDate(since).ok THEN <<"since_date", parseDateErr(since)>>
    ELSE IF ~parseDate(until).ok THEN <<"until_date", parseDateErr(until)>>
    ELSE IF Before(parseDate(until), parseDate(since))
         THEN <<"until_date must be after since_date", "">>
    ELSE IF Sub(parseDate(until), parseDate(since)) > 730 * 24
         THEN <<"date range too large (max 2 years)", "">>
    ELSE <<"nil", "">>

\* n as `width` decimal digits, zero padded
RECURSIVE Digits(_, _)
Digits(n, width) ==
    IF width = 0 THEN <<>>
    ELSE Append(Digits(n \div 10, width - 1), DigitChars[(n % 10) + 1])

\* func getMonthString(t time.Time) string { return t.Format("2006-01") }
getMonthString(t) == Digits(t.year, 4) \o <<"-">> \o Digits(t.month, 2)

\* The text of a date in the layout 2006-01-02, whether or not that day exists.
DateStr(year, month, day) ==
    Digits(year, 4) \o <<"-">> \o Digits(month, 2) \o <<"-">> \o Digits(day, 2)

MonthStr(year, month) == Digits(year, 4) \o <<"-">> \o Digits(month, 2)


(***************************************************************************)
(*      aggregateByCategory, aggregateByPayee, aggregateByMonth            *)
(***************************************************************************)

\* (mutant of isTransfer: no transaction is taken for a transfer)
isTransferNever(tx) == FALSE

\* func isTransfer(tx ynab.Transaction) bool
isTransfer(tx) == tx.TransferAccountID # ""

\* a categorySummary, payeeSummary or monthSummary holding zero values
NewSummary(id, name) ==
    [ID |-> id, Name |-> name, TotalOutflow |-> FZero, TotalInflow |-> FZero,
     Net |-> FZero, TransactionCount |-> 0]

\* "Aggregate amounts": the same statements in the three functions
Accumulate(summary, tx) ==
    LET amount == MilliunitsToFloat(tx.Amount) IN
    [summary EXCEPT
        !.TotalOutflow = IF FNegative(amount) THEN FAdd(@, FNeg(amount)) ELSE @,
        !.TotalInflow = IF FNegative(amount) THEN @ ELSE FAdd(@, amount),
        !.Net = FAdd(@, amount),
        !.TransactionCount = @ + 1]

\* (mutant of MapPut: the entry of a key already present is left as it was)
MapPutIfAbsent(summaries, key, value) ==
    IF key \in DOMAIN summaries THEN summaries ELSE (key :> value) @@ summaries

\* summaries[key] = value
MapPut(summaries, key, value) == (key :> value) @@ summaries

EmptyMap == [k \in {} |-> NewSummary("", "")]

RECURSIVE CategoryLoop(_, _, _)
CategoryLoop(transactions, i, summaries) ==
    IF i > Len(transactions) THEN summaries
    ELSE LET tx == transactions[i] IN
         IF isTransfer(tx) THEN CategoryLoop(transactions, i + 1, summaries)
         ELSE IF tx.Deleted THEN CategoryLoop(transactions, i + 1, summaries)
         ELSE LET categoryID == IF tx.CategoryID = "" THEN "uncategorized"
                                ELSE tx.CategoryID
                  summary == IF categoryID \in DOMAIN summaries
                             THEN summaries[categoryID]
                             ELSE NewSummary(categoryID,
                                      IF categoryID = "uncategorized"
                                      THEN "Uncategorized" ELSE tx.CategoryName)
              IN  CategoryLoop(transactions, i + 1,
                      MapPut(summaries, categoryID, Accumulate(summary, tx)))

\* func aggregateByCategory(transactions []ynab.Transaction) map[string]*categorySummary
aggregateByCategory(transactions) == CategoryLoop(transactions, 1, EmptyMap)

\* (mutant of PayeeLoop: transfers are given a bucket like any other
\* transaction)
RECURSIVE PayeeLoopWithTransfers(_, _, _)
PayeeLoopWithTransfers(transactions, i, summaries) ==
    IF i > Len(transactions) THEN summaries
    ELSE LET tx == transactions[i] IN
         IF tx.Deleted THEN PayeeLoopWithTransfers(transactions, i + 1, summaries)
         ELSE LET payeeID == IF tx.PayeeID = "" THEN "no-payee" ELSE tx.PayeeID
                  summary == IF payeeID \in DOMAIN summaries
                             THEN summaries[payeeID]
                             ELSE NewSummary(payeeID,
                                      IF payeeID = "no-payee"
                                      THEN "No Payee" ELSE tx.PayeeName)
              IN  PayeeLoopWithTransfers(transactions, i + 1,
                      MapPut(summaries, payeeID, Accumulate(summary, tx)))

\* the loop of aggregateByPayee over the transactions
RECURSIVE PayeeLoop(_, _, _)
PayeeLoop(transactions, i, summaries) ==
    IF i > Len(transactions) THEN summaries
    ELSE LET tx == transactions[i] IN
         IF isTransfer(tx) THEN PayeeLoop(transactions, i + 1, summaries)
         ELSE IF tx.Deleted THEN PayeeLoop(transactions, i + 1, summaries)
         ELSE LET payeeID == IF tx.PayeeID = "" THEN "no-payee" ELSE tx.PayeeID
                  summary == IF payeeID \in DOMAIN summaries
                             THEN summaries[payeeID]
                             ELSE NewSummary(payeeID,
                                      IF payeeID = "no-payee"
                                      THEN "No Payee" ELSE tx.PayeeName)
              IN  PayeeLoop(transactions, i + 1,
                      MapPut(summaries, payeeID, Accumulate(summary, tx)))

\* func aggregateByPayee(transactions []ynab.Transaction) map[string]*payeeSummary
aggregateByPayee(transactions) == PayeeLoop(transactions, 1, EmptyMap)

\* "Initialize all months with zero values"
InitMonths(months) ==
    [m \in {months[i] : i \in 1..Len(months)} |-> NewSummary(m, m)]

\* (mutant of MonthLoop: the loop left at the first date that does not parse)
RECURSIVE MonthLoopAborting(_, _, _)
MonthLoopAborting(transactions, i, summaries) ==
    IF i > Len(transactions) THEN summaries
    ELSE LET tx == transactions[i] IN
         IF isTransfer(tx) THEN MonthLoopAborting(transactions, i + 1, summaries)
         ELSE IF tx.Deleted THEN MonthLoopAborting(transactions, i + 1, summaries)
         ELSE LET txDate == parseDate(tx.Date) IN
              IF ~txDate.ok THEN summaries
              ELSE LET month == getMonthString(txDate) IN
                   IF month \notin DOMAIN summaries
                   THEN MonthLoopAborting(transactions, i + 1, summaries)
                   ELSE MonthLoopAborting(transactions, i + 1,
                            MapPut(summaries, month, Accumulate(summaries[month], tx)))

\* the loop of aggregateByMonth over the transactions
RECURSIVE MonthLoop(_, _, _)
MonthLoop(transactions, i, summaries) ==
    IF i > Len(transactions) THEN summaries
    ELSE LET tx == transactions[i] IN
         IF isTransfer(tx) THEN MonthLoop(transactions, i + 1, summaries)
         ELSE IF tx.Deleted THEN MonthLoop(transactions, i + 1, summaries)
         ELSE LET txDate == parseDate(tx.Date) IN
              IF ~txDate.ok THEN MonthLoop(transactions, i + 1, summaries)
              ELSE LET month == getMonthString(txDate) IN
                   IF month \notin DOMAIN summaries
                   THEN MonthLoop(transactions, i + 1, summaries)
                   ELSE MonthLoop(transactions, i + 1,
                            MapPut(summaries, month, Accumulate(summaries[month], tx)))

\* func aggregateByMonth(transactions []ynab.Transaction, months []string) map[string]*monthSummary
aggregateByMonth(transactions, months) ==
    MonthLoop(transactions, 1, InitMonths(months))

\* (mutant of MonthData: the month list walked from its end)
MonthDataReversed(summaries, months) ==
    [i \in 1..Len(months) |-> summaries[months[Len(months) + 1 - i]]]

\* get_spending_by_month: "Convert to sorted slice (chronological order)":
\* monthData[i] = *summaries[months[i]]
MonthData(summaries, months) ==
    [i \in 1..Len(months) |-> summaries[months[i]]]

\* ---- the inputs ----

MaxTxs == 3

\* amounts in milliunits: an outflow of 0.70 and an inflow of 0.10
Amounts == {-700, 100}

\* what a transaction says of its category, payee and date
Profiles ==
    { [CategoryID |-> "cat-1", CategoryName |-> "Groceries",
       PayeeID |-> "payee-1", PayeeName |-> "Market", Date |-> DateStr(2024, 1, 15)],
      [CategoryID |-> "", CategoryName |-> "",
       PayeeID |-> "payee-1", PayeeName |-> "Market", Date |-> DateStr(2024, 2, 10)],
      [CategoryID |-> "cat-1", CategoryName |-> "Groceries",
       PayeeID |-> "", PayeeName |-> "", Date |-> DateStr(2024, 2, 30)] }

\* a transaction is live, a transfer, or soft-deleted
Exclusions ==
    { [TransferAccountID |-> "", Deleted |-> FALSE],
      [TransferAccountID |-> "acct-2", Deleted |-> FALSE],
      [TransferAccountID |-> "", Deleted |-> TRUE] }

\* The transactions of a list: the live ones of every amount, the transfers
\* and the deleted ones of the outflow.
Transactions ==
    { tx \in { [Date |-> p.Date, Amount |-> a,
                CategoryID |-> p.CategoryID, CategoryName |-> p.CategoryName,
                PayeeID |-> p.PayeeID, PayeeName |-> p.PayeeName,
                TransferAccountID |-> x.TransferAccountID, Deleted |-> x.Deleted] :
                  p \in Profiles, a \in Amounts, x \in Exclusions } :
        (tx.TransferAccountID # "" \/ tx.Deleted) => tx.Amount < 0 }

SeqsUpTo(S, n) == UNION { [1..k -> S] : k \in 0..n }

\* the month lists a caller passes
MonthLists ==
    { <<MonthStr(2024, 1), MonthStr(2024, 2)>>,
      <<MonthStr(2024, 2), MonthStr(2024, 3)>>,
      <<MonthStr(2024, 3), MonthStr(2024, 3)>> }

NoAgg == [op |-> "none", months |-> <<>>, summaries |-> EmptyMap, monthData |-> <<>>]

\* Each list is aggregated once by each function.
AggregateByCategory ==
    /\ aggOut.op = "none"
    /\ aggOut' = [op |-> "category", months |-> <<>>,
                  summaries |-> aggregateByCategory(txs), monthData |-> <<>>]
    /\ UNCHANGED <<txs, notAggVars>>

AggregateByPayee ==
    /\ aggOut.op = "none"
    /\ aggOut' = [op |-> "payee", months |-> <<>>,
                  summaries |-> aggregateByPayee(txs), monthData |-> <<>>]
    /\ UNCHANGED <<txs, notAggVars>>

\* aggregateByMonth and the loop of get_spending_by_month over its result
AggregateByMonth ==
    /\ aggOut.op = "none"
    /\ \E months \in MonthLists :
         LET summaries == aggregateByMonth(txs, months) IN
         aggOut' = [op |-> "month", months |-> months, summaries |-> summaries,
                    monthData |-> MonthData(summaries, months)]
    /\ UNCHANGED <<txs, notAggVars>>

(***************************************************************************)
(*                 get_account_balances: the snapshot                      *)
(***************************************************************************)

\* (mutant of CountsInTotals: closed accounts totalled as well)
CountsInTotalsAlways(account) == TRUE

\* "Accumulate totals (exclude closed accounts)": if !account.Closed
CountsInTotals(account) == ~account.Closed

\* balance := accountBalance{...}
AccountBalance(account) ==
    [AccountID |-> account.ID, OnBudget |-> account.OnBudget,
     Closed |-> account.Closed,
     ClearedBalance |-> MilliunitsToFloat(account.ClearedBalance),
     UnclearedBalance |-> MilliunitsToFloat(account.UnclearedBalance),
     CurrentBalance |-> MilliunitsToFloat(account.Balance)]

\* for _, account := range accounts { ... }
RECURSIVE BalancesLoop(_, _, _)
BalancesLoop(accts, i, acc) ==
    IF i > Len(accts) THEN acc
    ELSE LET account == accts[i] IN
         IF account.Deleted THEN BalancesLoop(accts, i + 1, acc)
         ELSE LET balance == AccountBalance(account) IN
              BalancesLoop(accts, i + 1,
                  [accountBalances |-> Append(acc.accountBalances, balance),
                   totalOnBudget |->
                       IF CountsInTotals(account) /\ account.OnBudget
                       THEN FAdd(acc.totalOnBudget, balance.CurrentBalance)
                       ELSE acc.totalOnBudget,
                   totalOffBudget |->
                       IF CountsInTotals(account) /\ ~account.OnBudget
                       THEN FAdd(acc.totalOffBudget, balance.CurrentBalance)
                       ELSE acc.totalOffBudget])

\* "Build account balances" and "Build result"
BalancesResult(accts) ==
    LET acc == BalancesLoop(accts, 1,
                   [accountBalances |-> <<>>, totalOnBudget |-> FZero,
                    totalOffBudget |-> FZero])
    IN  [op |-> "balances",
         accounts |-> acc.accountBalances,
         total_on_budget |-> acc.totalOnBudget,
         total_off_budget |-> acc.totalOffBudget,
         net_worth |-> FAdd(acc.totalOnBudget, acc.totalOffBudget)]

NoBalances ==
    [op |-> "none", accounts |-> <<>>, total_on_budget |-> FZero,
     total_off_budget |-> FZero, net_worth |-> FZero]

\* ---- the inputs ----

MaxAccounts == 3

\* the i-th account of a budget
AccountIDs == <<"A", "B", "C", "D", "E">>

\* the balance of the i-th account, in milliunits
Balances == <<100000, 50000, 99999, -25500, 1>>

\* An account of the upstream list: the cleared and uncleared balances add
\* up to the balance.
AccountsAt(i) ==
    { [ID |-> AccountIDs[i], OnBudget |-> ob, Closed |-> cl, Deleted |-> de,
       Balance |-> Balances[i], ClearedBalance |-> Balances[i] - 999,
       UnclearedBalance |-> 999] :
        ob \in BOOLEAN, cl \in BOOLEAN, de \in BOOLEAN }

\* the lists of k accounts
RECURSIVE ListsOfAccounts(_)
ListsOfAccounts(k) ==
    IF k = 0 THEN {<<>>}
    ELSE { Append(l, a) : l \in ListsOfAccounts(k - 1), a \in AccountsAt(k) }

AccountLists == UNION { ListsOfAccounts(k) : k \in 0..MaxAccounts }

\* The handler of get_account_balances, from the fetched list on.
GetAccountBalances ==
    /\ balOut.op = "none"
    /\ balOut' = BalancesResult(accounts)
    /\ UNCHANGED <<accounts, notBalVars>>

(***************************************************************************)
(*                    validateDateRange: the inputs                        *)
(***************************************************************************)

\* the date arguments a caller passes: calendar dates, ...
ValidDateArgs ==
    { DateStr(2022, 1, 1), DateStr(2024, 1, 1), DateStr(2024, 1, 2),
      DateStr(2024, 6, 1), DateStr(2024, 2, 29), DateStr(1, 1, 1),
      DateStr(9999, 12, 31) }

\* ... well-formed texts that name no day, ...
NoDayArgs ==
    { DateStr(2023, 2, 29), DateStr(2024, 2, 30), DateStr(2024, 13, 1),
      DateStr(2024, 0, 10), DateStr(2024, 4, 31), DateStr(2024, 1, 0) }

\* ... and texts of another shape
MalformedArgs ==
    { <<>>,
      <<"2", "0", "2", "4", "-", "6", "-", "0", "1">>,
      <<"2", "0", "2", "4", "-", "0", "6", "-", "0", "1", "Z">>,
      <<"2", "0", "2", "4", "/", "0", "6", "/", "0", "1">>,
      <<"2", "0", "x", "4", "-", "0", "6", "-", "0", "1">>,
      <<"0", "6", "-", "0", "1", "-", "2", "0", "2", "4">> }

DateArgs == ValidDateArgs \cup NoDayArgs \cup MalformedArgs

ValidateDateRange ==
    /\ dateOut = <<"none", "">>
    /\ dateOut' = validateDateRange(sinceDate, untilDate)
    /\ UNCHANGED <<sinceDate, untilDate, notDateVars>>

(***************************************************************************)
(*                 Tool handlers: arguments and dispatch                   *)
(***************************************************************************)

\* A value of the argument bag (map[string]interface{}): no entry, a
\* string, or a number. A number is held in thousandths (1500 is 1.5).
AbsentArg == [t |-> "absent", s |-> "", n |-> 0]

StrArg(str) == [t |-> "string", s |-> str, n |-> 0]

NumArg(thousandths) == [t |-> "number", s |-> "", n |-> thousandths]

\* the same for the keys that hold a date or a month, whose text is a
\* sequence of characters
AbsentDateArg == [t |-> "absent", s |-> <<>>, n |-> 0]

DateArg(chars) == [t |-> "string", s |-> chars, n |-> 0]

NumDateArg(thousandths) == [t |-> "number", s |-> <<>>, n |-> thousandths]

\* v, ok := args[key].(string)
IsString(v) == v.t = "string"

\* v, ok := args[key].(float64)
IsFloat64(v) == v.t = "number"

\* `!ok || v == ""` for a string key
MissingString(v) == ~IsString(v) \/ v.s = ""

MissingDate(v) == ~IsString(v) \/ v.s = <<>>

\* `v, ok := args[key].(string); ok && v != ""` for an optional key
Supplied(v) == IsString(v) /\ v.s # ""

SuppliedDate(v) == IsString(v) /\ v.s # <<>>

\* int(f) of a float64 held in thousandths: truncation towards zero
IntOf(thousandths) ==
    IF thousandths >= 0 THEN thousandths \div 1000
    ELSE -((-thousandths) \div 1000)

\* ---- what a handler returns and what it asked of the client ----

\* mcp.NewToolResultError(text)
NewToolResultError(text) == [isError |-> TRUE, text |-> text]

\* mcp.NewToolResultText(...)
NewToolResultText(text) == [isError |-> FALSE, text |-> text]

NoResult == [isError |-> FALSE, text |-> "none"]

\* (mutant of Rejected: the check made after a fetch)
RejectedAfterFetch(text) ==
    [issued |-> <<[op |-> "ListTransactions"]>>, result |-> NewToolResultError(text)]

\* a handler that returned before it called the client
Rejected(text) == [issued |-> <<>>, result |-> NewToolResultError(text)]

\* a handler that called one operation of the client and returned
Dispatched(op, outcome, failure) ==
    [issued |-> <<op>>,
     result |-> IF outcome = "err" THEN NewToolResultError(failure)
                ELSE NewToolResultText("ok")]

\* the outcomes of the client operations of one invocation, in order
UpstreamOutcomes == [1..2 -> {"ok", "err"}]

\* `if !ok || budgetID == ""` and the like, for the keys in `keys` in order:
\* the first key that fails, or "" when none does
RECURSIVE FirstMissing(_, _, _)
FirstMissing(args, keys, i) ==
    IF i > Len(keys) THEN ""
    ELSE IF MissingString(args[keys[i]]) THEN keys[i]
    ELSE FirstMissing(args, keys, i + 1)

\* The handlers that check their string keys and call one operation:
\* get_budget_details, list_accounts, get_account_details, get_transaction,
\* list_categories, get_category_details, list_payees,
\* get_account_balances.
LookupHandler(isMap, args, keys, opName, failure, up) ==
    IF ~isMap THEN Rejected("Invalid arguments")
    ELSE IF FirstMissing(args, keys, 1) # ""
         THEN Rejected(FirstMissing(args, keys, 1) \o " is required")
    ELSE Dispatched([op |-> opName, ids |-> [i \in 1..Len(keys) |-> args[keys[i]].s]],
                    up[1], failure)

\* NewListBudgetsTool: no argument is read
ListBudgetsHandler(up) ==
    Dispatched([op |-> "ListBudgets"], up[1], "Failed to fetch budgets")

\* client.ListAccountTransactions or client.ListTransactions
TransactionsOp(args, since, type) ==
    IF Supplied(args.account_id)
    THEN [op |-> "ListAccountTransactions", budgetID |-> args.budget_id.s,
          accountID |-> args.account_id.s, SinceDate |-> since, Type |-> type]
    ELSE [op |-> "ListTransactions", budgetID |-> args.budget_id.s,
          accountID |-> "", SinceDate |-> since, Type |-> type]

\* NewListTransactionsTool
ListTransactionsHandler(isMap, args, up) ==
    IF ~isMap THEN Rejected("Invalid arguments")
    ELSE IF MissingString(args.budget_id) THEN Rejected("budget_id is required")
    ELSE Dispatched(
             TransactionsOp(args,
                 IF SuppliedDate(args.since_date) THEN args.since_date.s ELSE <<>>,
                 IF Supplied(args.type) THEN args.type.s ELSE ""),
             up[1], "Failed to fetch transactions")

\* NewGetSpendingByCategoryTool, up to the fetch
GetSpendingByCategoryHandler(isMap, args, up) ==
    IF ~isMap THEN Rejected("Invalid arguments")
    ELSE IF MissingString(args.budget_id) THEN Rejected("budget_id is required")
    ELSE IF MissingDate(args.since_date)
         THEN Rejected("since_date is required (YYYY-MM-DD format)")
    ELSE IF MissingDate(args.until_date)
         THEN Rejected("until_date is required (YYYY-MM-DD format)")
    ELSE IF validateDateRange(args.since_date.s, args.until_date.s)[1] # "nil"
         THEN Rejected(validateDateRange(args.since_date.s, args.until_date.s)[1])
    ELSE Dispatched(TransactionsOp(args, args.since_date.s, ""),
                    up[1], "Failed to fetch transactions")

\* NewGetPayeeSummaryTool, up to the fetch
GetPayeeSummaryHandler(isMap, args, up) ==
    IF ~isMap THEN Rejected("Invalid arguments")
    ELSE IF MissingString(args.budget_id) THEN Rejected("budget_id is required")
    ELSE IF MissingDate(args.since_date)
         THEN Rejected("since_date is required (YYYY-MM-DD format)")
    ELSE IF MissingDate(args.until_date)
         THEN Rejected("until_date is required (YYYY-MM-DD format)")
    ELSE IF validateDateRange(args.since_date.s, args.until_date.s)[1] # "nil"
         THEN Rejected(validateDateRange(args.since_date.s, args.until_date.s)[1])
    ELSE Dispatched([op |-> "ListTransactions", budgetID |-> args.budget_id.s,
                     accountID |-> "", SinceDate |-> args.since_date.s, Type |-> ""],
                    up[1], "Failed to fetch transactions")

\* getLastNMonths(n): the number of months it returns
LastNMonthsLen(n) == IF n < 1 THEN 1 ELSE IF n > 24 THEN 24 ELSE n

\* NewGetSpendingByMonthTool, up to the fetch
GetSpendingByMonthHandler(isMap, args, up) ==
    IF ~isMap THEN Rejected("Invalid arguments")
    ELSE IF MissingString(args.budget_id) THEN Rejected("budget_id is required")
    ELSE IF ~IsFloat64(args.num_months) THEN Rejected("num_months is required (1-24)")
    ELSE IF IntOf(args.num_months.n) < 1 \/ IntOf(args.num_months.n) > 24
         THEN Rejected("num_months must be between 1 and 24")
    ELSE LET getCategory == [op |-> "GetCategory", budgetID |-> args.budget_id.s,
                             categoryID |-> args.category_id.s]
             withCategory == Supplied(args.category_id)
             before == IF withCategory THEN <<getCategory>> ELSE <<>>
             fetch == TransactionsOp(args, <<>>, "")
             fetched == IF withCategory THEN up[2] ELSE up[1]
         IN  IF withCategory /\ up[1] = "err"
             THEN [issued |-> before,
                   result |-> NewToolResultError("Failed to fetch category")]
             ELSE IF LastNMonthsLen(IntOf(args.num_months.n)) = 0
             THEN [issued |-> before,
                   result |-> NewToolResultError("Failed to calculate month range")]
             ELSE [issued |-> Append(before, fetch),
                   result |-> IF fetched = "err"
                              THEN NewToolResultError("Failed to fetch transactions")
                              ELSE NewToolResultText("ok")]

\* time.Parse("2006-01", monthStr)
MonthParses(s) ==
    /\ Len(s) = 7
    /\ AllDigits(s, 1, 4)
    /\ s[5] = "-"
    /\ AllDigits(s, 6, 7)
    /\ Atoi(s, 6, 7) \in 1..12

\* NewGetBudgetSummaryTool, up to the fetch
GetBudgetSummaryHandler(isMap, args, up) ==
    IF ~isMap THEN Rejected("Invalid arguments")
    ELSE IF MissingString(args.budget_id) THEN Rejected("budget_id is required")
    ELSE IF SuppliedDate(args.month) /\ ~MonthParses(args.month.s)
         THEN Rejected("Invalid month format")
    ELSE Dispatched([op |-> "GetBudget", budgetID |-> args.budget_id.s],
                    up[1], "Failed to fetch budget")

\* ---- create_transaction and update_transaction ----

\* the JSON object with no member
EmptyObject == <<>>

\* a member tagged `omitempty`
OmitEmpty(key, value, zero) ==
    IF value = zero THEN EmptyObject ELSE (key :> value)

\* json.Marshal of UpdateTransactionRequest.Transaction: every member is
\* tagged omitempty; Approved is a *bool
MarshalUpdate(t) ==
    OmitEmpty("account_id", t.AccountID, "") @@ OmitEmpty("date", t.Date, <<>>)
    @@ OmitEmpty("amount", t.Amount, 0) @@ OmitEmpty("payee_id", t.PayeeID, "")
    @@ OmitEmpty("payee_name", t.PayeeName, "")
    @@ OmitEmpty("category_id", t.CategoryID, "")
    @@ OmitEmpty("memo", t.Memo, "") @@ OmitEmpty("cleared", t.Cleared, "")
    @@ OmitEmpty("approved", t.Approved, "nil")
    @@ OmitEmpty("flag_color", t.FlagColor, "")

\* json.Marshal of CreateTransactionRequest.Transaction: account_id, date
\* and amount are always written
MarshalCreate(t) ==
    ("account_id" :> t.AccountID) @@ ("date" :> t.Date)
    @@ ("amount" :> t.Amount) @@ OmitEmpty("payee_id", t.PayeeID, "")
    @@ OmitEmpty("payee_name", t.PayeeName, "")
    @@ OmitEmpty("category_id", t.CategoryID, "")
    @@ OmitEmpty("memo", t.Memo, "") @@ OmitEmpty("cleared", t.Cleared, "")
    @@ OmitEmpty("approved", t.Approved, FALSE)
    @@ OmitEmpty("flag_color", t.FlagColor, "")

\* the float64 a JSON number decodes to
ArgFloat(v) == MilliunitsToFloat(v.n)

\* req := &ynab.CreateTransactionRequest{} and the assignments to it
CreateRequest(args, now) ==
    [AccountID |-> args.account_id.s,
     Date |-> IF MissingDate(args.date) THEN now ELSE args.date.s,
     Amount |-> FloatToMilliunits(ArgFloat(args.amount)),
     PayeeID |-> "",
     PayeeName |-> IF Supplied(args.payee_name) THEN args.payee_name.s ELSE "",
     CategoryID |-> IF Supplied(args.category_id) THEN args.category_id.s ELSE "",
     Memo |-> IF Supplied(args.memo) THEN args.memo.s ELSE "",
     Cleared |-> IF Supplied(args.cleared) THEN args.cleared.s ELSE "uncleared",
     Approved |-> TRUE,
     FlagColor |-> ""]

\* NewCreateTransactionTool, up to the call of the client
CreateTransactionHandler(isMap, args, now, up) ==
    IF ~isMap THEN Rejected("Invalid arguments")
    ELSE IF MissingString(args.budget_id) THEN Rejected("budget_id is required")
    ELSE IF MissingString(args.account_id) THEN Rejected("account_id is required")
    ELSE IF ~IsFloat64(args.amount)
         THEN Rejected("amount is required and must be a number")
    ELSE Dispatched([op |-> "CreateTransaction", budgetID |-> args.budget_id.s,
                     body |-> MarshalCreate(CreateRequest(args, now))],
                    up[1], "Failed to create transaction")

\* req := &ynab.UpdateTransactionRequest{} and the assignments to it
UpdateRequest(args) ==
    [AccountID |-> "",
     Date |-> IF SuppliedDate(args.date) THEN args.date.s ELSE <<>>,
     Amount |-> IF IsFloat64(args.amount)
                THEN FloatToMilliunits(ArgFloat(args.amount)) ELSE 0,
     PayeeID |-> "",
     PayeeName |-> IF Supplied(args.payee_name) THEN args.payee_name.s ELSE "",
     CategoryID |-> IF Supplied(args.category_id) THEN args.category_id.s ELSE "",
     Memo |-> IF Supplied(args.memo) THEN args.memo.s ELSE "",
     Cleared |-> IF Supplied(args.cleared) THEN args.cleared.s ELSE "",
     Approved |-> "nil",
     FlagColor |-> ""]

\* NewUpdateTransactionTool, up to the call of the client
UpdateTransactionHandler(isMap, args, up) ==
    IF ~isMap THEN Rejected("Invalid arguments")
    ELSE IF MissingString(args.budget_id) THEN Rejected("budget_id is required")
    ELSE IF MissingString(args.transaction_id)
         THEN Rejected("transaction_id is required")
    ELSE Dispatched([op |-> "UpdateTransaction", budgetID |-> args.budget_id.s,
                     transactionID |-> args.transaction_id.s,
                     body |-> MarshalUpdate(UpdateRequest(args))],
                    up[1], "Failed to update transaction")

\* ---- the invocations ----

\* the values a caller gives an identifier key, an optional text key, a
\* date key of a transaction, an amount, num_months, top_n and month
IdArgs == {AbsentArg, StrArg(""), StrArg("id-1"), NumArg(1000)}

TextArgs == {AbsentArg, StrArg(""), StrArg("text")}

TxDateArgs ==
    {AbsentDateArg, DateArg(<<>>), DateArg(DateStr(2024, 1, 15)),
     DateArg(<<"1", "5", "/", "0", "1", "/", "2", "4">>)}

RangeDateArgs ==
    {AbsentDateArg, DateArg(<<>>), NumDateArg(20240101),
     DateArg(DateStr(2024, 1, 1)), DateArg(DateStr(2024, 6, 1)),
     DateArg(DateStr(2022, 1, 1)), DateArg(DateStr(2024, 2, 30))}

AmountArgs == {AbsentArg, StrArg("45.67"), NumArg(0), NumArg(45670), NumArg(-12500)}

NumMonthsArgs ==
    {AbsentArg, StrArg("3"), NumArg(-1000), NumArg(0), NumArg(500), NumArg(1000),
     NumArg(24000), NumArg(24900), NumArg(25000)}

MonthArgs ==
    {AbsentDateArg, DateArg(<<>>), DateArg(MonthStr(2024, 3)),
     DateArg(<<"2", "0", "2", "4", "-", "1", "3">>), DateArg(DateStr(2024, 3, 1))}

\* the dates time.Now() falls on
Todays == {DateStr(2024, 6, 1)}

\* the argument bags of each tool: one entry per property of its schema
ListBudgetsArgs == [budget_id : {AbsentArg}]

BudgetArgs == [budget_id : IdArgs]

AccountArgs == [budget_id : IdArgs, account_id : IdArgs]

TransactionArgs == [budget_id : IdArgs, transaction_id : IdArgs]

CategoryArgs == [budget_id : IdArgs, category_id : IdArgs]

ListTransactionsArgs ==
    [budget_id : IdArgs, since_date : TxDateArgs, type : TextArgs,
     account_id : TextArgs]

CreateTransactionArgs ==
    [budget_id : IdArgs, account_id : IdArgs, date : TxDateArgs,
     amount : AmountArgs, payee_name : TextArgs, category_id : TextArgs,
     memo : TextArgs, cleared : TextArgs]

UpdateTransactionArgs ==
    [budget_id : IdArgs, transaction_id : IdArgs, date : TxDateArgs,
     amount : AmountArgs, payee_name : TextArgs, category_id : TextArgs,
     memo : TextArgs, cleared : TextArgs]

SpendingByCategoryArgs ==
    [budget_id : IdArgs, since_date : RangeDateArgs, until_date : RangeDateArgs,
     account_id : TextArgs]

SpendingByMonthArgs ==
    [budget_id : IdArgs, category_id : TextArgs, num_months : NumMonthsArgs,
     account_id : TextArgs]

BudgetSummaryArgs == [budget_id : IdArgs, month : MonthArgs]

PayeeSummaryArgs ==
    [budget_id : IdArgs, since_date : RangeDateArgs, until_date : RangeDateArgs,
     top_n : {AbsentArg}]

\* request.Params.Arguments that is no map
NotAMap == [budget_id |-> AbsentArg]

\* the bags a caller passes: a map of the tool's keys, or no map
Bags(isMap, maps) == IF isMap THEN maps ELSE {NotAMap}

\* One invocation of a tool: the handler runs to its return.
Invocation(name, isMap, a, out) ==
    /\ tool' = name
    /\ argsIsMap' = isMap
    /\ callArgs' = a
    /\ issued' = out.issued
    /\ result' = out.result
    /\ UNCHANGED notToolVars

InvokeListBudgets ==
    /\ tool = "none"
    /\ \E up \in UpstreamOutcomes :
           Invocation("list_budgets", TRUE, NotAMap, ListBudgetsHandler(up))

InvokeGetBudget ==
    /\ tool = "none"
    /\ \E isMap \in BOOLEAN, up \in UpstreamOutcomes :
           \E a \in Bags(isMap, BudgetArgs) :
               Invocation("get_budget_details", isMap, a,
                   LookupHandler(isMap, a, <<"budget_id">>, "GetBudget",
                                 "Failed to fetch budget", up))

InvokeListAccounts ==
    /\ tool = "none"
    /\ \E isMap \in BOOLEAN, up \in UpstreamOutcomes :
           \E a \in Bags(isMap, BudgetArgs) :
               Invocation("list_accounts", isMap, a,
                   LookupHandler(isMap, a, <<"budget_id">>, "ListAccounts",
                                 "Failed to fetch accounts", up))

InvokeGetAccount ==
    /\ tool = "none"
    /\ \E isMap \in BOOLEAN, up \in UpstreamOutcomes :
           \E a \in Bags(isMap, AccountArgs) :
               Invocation("get_account_details", isMap, a,
                   LookupHandler(isMap, a, <<"budget_id", "account_id">>, "GetAccount",
                                 "Failed to fetch account", up))

InvokeListTransactions ==
    /\ tool = "none"
    /\ \E isMap \in BOOLEAN, up \in UpstreamOutcomes :
           \E a \in Bags(isMap, ListTransactionsArgs) :
               Invocation("list_transactions", isMap, a,
                   ListTransactionsHandler(isMap, a, up))

InvokeGetTransaction ==
    /\ tool = "none"
    /\ \E isMap \in BOOLEAN, up \in UpstreamOutcomes :
           \E a \in Bags(isMap, TransactionArgs) :
               Invocation("get_transaction", isMap, a,
                   LookupHandler(isMap, a, <<"budget_id", "transaction_id">>,
                                 "GetTransaction", "Failed to fetch transaction", up))

InvokeCreateTransaction ==
    /\ tool = "none"
    /\ \E isMap \in BOOLEAN, up \in UpstreamOutcomes, now \in Todays :
           \E a \in Bags(isMap, CreateTransactionArgs) :
               Invocation("create_transaction", isMap, a,
                   CreateTransactionHandler(isMap, a, now, up))

InvokeUpdateTransaction ==
    /\ tool = "none"
    /\ \E isMap \in BOOLEAN, up \in UpstreamOutcomes :
           \E a \in Bags(isMap, UpdateTransactionArgs) :
               Invocation("update_transaction", isMap, a,
                   UpdateTransactionHandler(isMap, a, up))

InvokeListCategories ==
    /\ tool = "none"
    /\ \E isMap \in BOOLEAN, up \in UpstreamOutcomes :
           \E a \in Bags(isMap, BudgetArgs) :
               Invocation("list_categories", isMap, a,
                   LookupHandler(isMap, a, <<"budget_id">>, "ListCategories",
                                 "Failed to fetch categories", up))

InvokeGetCategory ==
    /\ tool = "none"
    /\ \E isMap \in BOOLEAN, up \in UpstreamOutcomes :
           \E a \in Bags(isMap, CategoryArgs) :
               Invocation("get_category_details", isMap, a,
                   LookupHandler(isMap, a, <<"budget_id", "category_id">>, "GetCategory",
                                 "Failed to fetch category", up))

InvokeListPayees ==
    /\ tool = "none"
    /\ \E isMap \in BOOLEAN, up \in UpstreamOutcomes :
           \E a \in Bags(isMap, BudgetArgs) :
               Invocation("list_payees", isMap, a,
                   LookupHandler(isMap, a, <<"budget_id">>, "ListPayees",
                                 "Failed to fetch payees", up))

InvokeGetSpendingByCategory ==
    /\ tool = "none"
    /\ \E isMap \in BOOLEAN, up \in UpstreamOutcomes :
           \E a \in Bags(isMap, SpendingByCategoryArgs) :
               Invocation("get_spending_by_category", isMap, a,
                   GetSpendingByCategoryHandler(isMap, a, up))

InvokeGetSpendingByMonth ==
    /\ tool = "none"
    /\ \E isMap \in BOOLEAN, up \in UpstreamOutcomes :
           \E a \in Bags(isMap, SpendingByMonthArgs) :
               Invocation("get_spending_by_month", isMap, a,
                   GetSpendingByMonthHandler(isMap, a, up))

InvokeGetBudgetSummary ==
    /\ tool = "none"
    /\ \E isMap \in BOOLEAN, up \in UpstreamOutcomes :
           \E a \in Bags(isMap, BudgetSummaryArgs) :
               Invocation("get_budget_summary", isMap, a,
                   GetBudgetSummaryHandler(isMap, a, up))

InvokeGetPayeeSummary ==
    /\ tool = "none"
    /\ \E isMap \in BOOLEAN, up \in UpstreamOutcomes :
           \E a \in Bags(isMap, PayeeSummaryArgs) :
               Invocation("get_payee_summary", isMap, a,
                   GetPayeeSummaryHandler(isMap, a, up))

InvokeGetAccountBalances ==
    /\ tool = "none"
    /\ \E isMap \in BOOLEAN, up \in UpstreamOutcomes :
           \E a \in Bags(isMap, BudgetArgs) :
               Invocation("get_account_balances", isMap, a,
                   LookupHandler(isMap, a, <<"budget_id">>, "ListAccounts",
                                 "Failed to fetch accounts", up))

(***************************************************************************)
(*              GetAccount, GetCategory, GetPayee: list and scan           *)
(***************************************************************************)

\* what a list operation of the client returns: a list and a nil error, or
\* nil and the error of doRequest
ListOK(list) == [err |-> NilErr, data |-> list]

ListFailed(e) == [err |-> e, data |-> <<>>]

\* (mutant of ScanByID: soft-deleted entities are passed over)
RECURSIVE ScanByIDLive(_, _, _)
ScanByIDLive(list, id, i) ==
    IF i > Len(list) THEN 0
    ELSE IF list[i].ID = id /\ ~list[i].Deleted THEN i
    ELSE ScanByIDLive(list, id, i + 1)

\* for _, x := range list { if x.ID == id { return &x, nil } }: the index of
\* the element returned, 0 when the loop ends without a return
RECURSIVE ScanByID(_, _, _)
ScanByID(list, id, i) ==
    IF i > Len(list) THEN 0
    ELSE IF list[i].ID = id THEN i
    ELSE ScanByID(list, id, i + 1)

NoEntity == [ID |-> "", Deleted |-> FALSE]

\* the (entity, error) pair of a lookup
Found(entity) == [entity |-> entity, err |-> NilErr]

Failed(e) == [entity |-> NoEntity, err |-> e]

\* fmt.Errorf("account not found: %s", accountID) and the like
NotFound(what, id) == MkErr(what \o " not found", id)

\* func (c *Client) GetAccount(budgetID, accountID string) (*Account, error)
GetAccount(listed, accountID) ==
    IF listed.err # NilErr THEN Failed(listed.err)
    ELSE IF ScanByID(listed.data, accountID, 1) # 0
         THEN Found(listed.data[ScanByID(listed.data, accountID, 1)])
    ELSE Failed(NotFound("account", accountID))

\* func (c *Client) GetPayee(budgetID, payeeID string) (*Payee, error)
GetPayee(listed, payeeID) ==
    IF listed.err # NilErr THEN Failed(listed.err)
    ELSE IF ScanByID(listed.data, payeeID, 1) # 0
         THEN Found(listed.data[ScanByID(listed.data, payeeID, 1)])
    ELSE Failed(NotFound("payee", payeeID))

\* for _, group := range categoryGroups { for _, category := range
\* group.Categories { ... } }: the (group, category) indices of the category
\* returned, <<0, 0>> when the loops end without a return
RECURSIVE ScanGroups(_, _, _)
ScanGroups(categoryGroups, id, g) ==
    IF g > Len(categoryGroups) THEN <<0, 0>>
    ELSE IF ScanByID(categoryGroups[g].Categories, id, 1) # 0
         THEN <<g, ScanByID(categoryGroups[g].Categories, id, 1)>>
    ELSE ScanGroups(categoryGroups, id, g + 1)

\* func (c *Client) GetCategory(budgetID, categoryID string) (*Category, error)
GetCategory(listed, categoryID) ==
    IF listed.err # NilErr THEN Failed(listed.err)
    ELSE LET at == ScanGroups(listed.data, categoryID, 1) IN
         IF at[1] # 0 THEN Found(listed.data[at[1]].Categories[at[2]])
         ELSE Failed(NotFound("category", categoryID))

\* ---- the inputs ----

MaxEntities == 3

\* the entities of a budget and the IDs a caller asks for
Entities == [ID : {"e1", "e2"}, Deleted : BOOLEAN]

RequestedIDs == {"e1", "e2", "e3"}

\* the errors doRequest returns to a list operation
ListErrors ==
    { ExhaustedError(MkErr("request failed", "timeout")).err,
      APIError(404, [errParse |-> TRUE, detail |-> "transaction not found",
                     dataParse |-> FALSE]),
      APIError(500, NoBody) }

ListResults ==
    { ListOK(l) : l \in SeqsUpTo(Entities, MaxEntities) }
    \cup { ListFailed(e) : e \in ListErrors }

\* categories in two groups: the first `cut` of them in the first group
Grouped(listed, cut) ==
    IF listed.err # NilErr THEN listed
    ELSE ListOK(<<[Categories |-> SubSeq(listed.data, 1, cut)],
                  [Categories |-> SubSeq(listed.data, cut + 1, Len(listed.data))]>>)

NoLookup == [op |-> "none", listed |-> ListFailed(NilErr), id |-> ""]

LookupAccount ==
    /\ lookup.op = "none"
    /\ \E listed \in ListResults, id \in RequestedIDs :
           /\ lookup' = [op |-> "GetAccount", listed |-> listed, id |-> id]
           /\ lookupRet' = GetAccount(listed, id)
    /\ UNCHANGED notLookupVars

LookupPayee ==
    /\ lookup.op = "none"
    /\ \E listed \in ListResults, id \in RequestedIDs :
           /\ lookup' = [op |-> "GetPayee", listed |-> listed, id |-> id]
           /\ lookupRet' = GetPayee(listed, id)
    /\ UNCHANGED notLookupVars

LookupCategory ==
    /\ lookup.op = "none"
    /\ \E listed \in ListResults, id \in RequestedIDs :
           \E cut \in 0..Len(listed.data) :
               /\ lookup' = [op |-> "GetCategory", listed |-> Grouped(listed, cut),
                             id |-> id]
               /\ lookupRet' = GetCategory(Grouped(listed, cut), id)
    /\ UNCHANGED notLookupVars

(***************************************************************************)
(*        get_payee_summary: the payees shown (src/unnamed/part_007)       *)
(***************************************************************************)

\* `topN := 20`
defaultTopN == 20

\* topN as the handler computes it from args["top_n"]
TopN(v) ==
    IF IsFloat64(v)
    THEN IF IntOf(v.n) < 1 THEN defaultTopN ELSE IntOf(v.n)
    ELSE defaultTopN

\* (mutant of SortSlice: the elements left in the order of the range loop)
SortSliceUnsorted(list, S) == {[i \in 1..Cardinality(S) |-> list[i]]}

\* sort.Slice with less(i, j) = payees[i].TotalOutflow > payees[j].TotalOutflow:
\* every order of the given elements in which none stands before one that is
\* less than it (the order of equal totals is not fixed).  The head is any
\* element of the largest total, and the rest is sorted likewise.
RECURSIVE SortSlice(_, _)
SortSlice(list, S) ==
    IF S = {} THEN {<<>>}
    ELSE LET top == {i \in S : \A j \in S :
                         ~(list[j].TotalOutflow > list[i].TotalOutflow)}
         IN  UNION {{<<list[i]>> \o rest : rest \in SortSlice(list, S \ {i})} :
                    i \in top}

\* `if len(payees) > topN { payees = payees[:topN] }`
LimitTopNUnlimited(list, n) == list

LimitTopN(list, n) == IF Len(list) > n THEN SubSeq(list, 1, n) ELSE list

\* ---- inputs ----

MaxPayees == 3

\* total outflows, in thousandths of the currency unit
Outflows == {0, 1000, 2500}

\* the totals of the map aggregateByPayee returns, in the order the range
\* loop yields them: every short list, and lists around the default limit
ShortLists == UNION {[1..n -> Outflows] : n \in 0..MaxPayees}

LongLists ==
    {[i \in 1..n |-> ((i * 7) % 23) * 500] :
        n \in (defaultTopN - 1)..(defaultTopN + MaxPayees - 1)}

SummariesOf(outflows) ==
    [i \in 1..Len(outflows) |->
        [PayeeName |-> "payee-" \o ToString(i), TotalOutflow |-> outflows[i]]]

TopNArgs ==
    {AbsentArg, StrArg("2"), NumArg(-1000), NumArg(0), NumArg(500),
     NumArg(1000), NumArg(2000), NumArg(2700), NumArg(21000)}

\* The tail of the handler, from the computation of topN to the limited list.
PayeeSummaryTopN ==
    /\ ~payeeDone
    /\ ~categoryDone
    /\ \E outflows \in ShortLists \cup LongLists, v \in TopNArgs :
           LET made == SummariesOf(outflows) IN
           \E sorted \in SortSlice(made, DOMAIN made) :
               /\ payeeSummaries' = made
               /\ topNArg' = v
               /\ payees' = LimitTopN(sorted, TopN(v))
               /\ payeeDone' = TRUE
    /\ UNCHANGED notPayeeVars

CategorySummariesOf(outflows) ==
    [i \in 1..Len(outflows) |->
        [CategoryName |-> "category-" \o ToString(i), TotalOutflow |-> outflows[i]]]

\* The tail of get_spending_by_category: the summaries put into a slice and
\* sorted by total outflow; the list is not limited.
CategorySummarySorted ==
    /\ ~categoryDone
    /\ ~payeeDone
    /\ \E outflows \in ShortLists :
           LET made == CategorySummariesOf(outflows) IN
           \E sorted \in SortSlice(made, DOMAIN made) :
               /\ categorySummaries' = made
               /\ categoryList' = sorted
               /\ categoryDone' = TRUE
    /\ UNCHANGED notCategoryVars

(***************************************************************************)
(*     The listing tools: what they show and count (internal/tools)        *)
(*                                                                         *)
(* The text a handler builds is kept as a record: the counts it prints,    *)
(* the IDs of the entities it writes a line for, and the totals.           *)
(***************************************************************************)

\* `displayCount := len(transactions); if displayCount > 50 { ... }`
displayLimit == 50

\* list_accounts: "Found %d account(s)", one block per account that is not
\* deleted, and the on budget and off budget totals
RECURSIVE ListAccountsLoop(_, _, _)
ListAccountsLoop(list, i, acc) ==
    IF i > Len(list) THEN acc
    ELSE IF list[i].Deleted THEN ListAccountsLoop(list, i + 1, acc)
    ELSE ListAccountsLoop(list, i + 1,
             [acc EXCEPT !.shown = Append(@, list[i].ID),
                         !.onBudgetTotal =
                             IF list[i].OnBudget THEN @ + list[i].Balance ELSE @,
                         !.offBudgetTotal =
                             IF list[i].OnBudget THEN @ ELSE @ + list[i].Balance])

ListAccountsReport(list) ==
    IF Len(list) = 0 THEN [text |-> "No accounts found."]
    ELSE ListAccountsLoop(list, 1,
             [text |-> "Found", found |-> Len(list), shown |-> <<>>,
              onBudgetTotal |-> 0, offBudgetTotal |-> 0])

\* list_payees: "Found %d payee(s)", the regular and the transfer payees that
\* are not deleted, and "Total: %d regular payees, %d transfer payees"
RECURSIVE ListPayeesLoop(_, _, _)
ListPayeesLoop(list, i, acc) ==
    IF i > Len(list) THEN acc
    ELSE IF list[i].Deleted THEN ListPayeesLoop(list, i + 1, acc)
    ELSE IF list[i].TransferAccountID # ""
    THEN ListPayeesLoop(list, i + 1,
             [acc EXCEPT !.transferPayees = Append(@, list[i].ID)])
    ELSE ListPayeesLoop(list, i + 1,
             [acc EXCEPT !.regularPayees = Append(@, list[i].ID)])

ListPayeesReport(list) ==
    IF Len(list) = 0 THEN [text |-> "No payees found."]
    ELSE LET acc == ListPayeesLoop(list, 1,
                        [regularPayees |-> <<>>, transferPayees |-> <<>>])
         IN  [text |-> "Found", found |-> Len(list),
              shown |-> acc.regularPayees \o acc.transferPayees,
              regular |-> Len(acc.regularPayees),
              transfer |-> Len(acc.transferPayees)]

\* list_transactions: "Found %d transaction(s)", the first displayCount
\* transactions that are not deleted, and their total amount
RECURSIVE ListTransactionsLoop(_, _, _, _)
ListTransactionsLoop(list, i, displayCount, acc) ==
    IF i > displayCount THEN acc
    ELSE IF list[i].Deleted THEN ListTransactionsLoop(list, i + 1, displayCount, acc)
    ELSE ListTransactionsLoop(list, i + 1, displayCount,
             [acc EXCEPT !.shown = Append(@, list[i].ID),
                         !.totalAmount = @ + list[i].Amount])

ListTransactionsReport(list) ==
    IF Len(list) = 0 THEN [text |-> "No transactions found."]
    ELSE ListTransactionsLoop(list, 1,
             IF Len(list) > displayLimit THEN displayLimit ELSE Len(list),
             [text |-> "Found", found |-> Len(list), shown |-> <<>>,
              totalAmount |-> 0])

\* list_categories: the groups and categories that are neither deleted nor
\* hidden, and the totals over those categories
RECURSIVE ListCategoriesInner(_, _, _)
ListCategoriesInner(categories, i, acc) ==
    IF i > Len(categories) THEN acc
    ELSE IF categories[i].Deleted \/ categories[i].Hidden
    THEN ListCategoriesInner(categories, i + 1, acc)
    ELSE ListCategoriesInner(categories, i + 1,
             [acc EXCEPT !.shown = Append(@, categories[i].ID),
                         !.totalBudgeted = @ + categories[i].Budgeted,
                         !.totalActivity = @ + categories[i].Activity,
                         !.totalBalance = @ + categories[i].Balance])

RECURSIVE ListCategoriesLoop(_, _, _)
ListCategoriesLoop(groups, g, acc) ==
    IF g > Len(groups) THEN acc
    ELSE IF groups[g].Deleted \/ groups[g].Hidden
    THEN ListCategoriesLoop(groups, g + 1, acc)
    ELSE ListCategoriesLoop(groups, g + 1,
             ListCategoriesInner(groups[g].Categories, 1,
                 [acc EXCEPT !.groups = Append(@, groups[g].ID)]))

ListCategoriesReport(groups) ==
    IF Len(groups) = 0 THEN [text |-> "No category groups found."]
    ELSE ListCategoriesLoop(groups, 1,
             [text |-> "Category Groups and Categories", groups |-> <<>>,
              shown |-> <<>>, totalBudgeted |-> 0, totalActivity |-> 0,
              totalBalance |-> 0])

\* get_budget_details: "Accounts (%d)" and a line per account that is neither
\* deleted nor closed, with the totals; "Category Groups (%d)" and a line
\* "(%d categories)" per group that is neither deleted nor hidden; and
\* "Total Payees: %d"
RECURSIVE BudgetAccountsLoop(_, _, _)
BudgetAccountsLoop(list, i, acc) ==
    IF i > Len(list) THEN acc
    ELSE IF list[i].Deleted \/ list[i].Closed
    THEN BudgetAccountsLoop(list, i + 1, acc)
    ELSE BudgetAccountsLoop(list, i + 1,
             [acc EXCEPT !.shown = Append(@, list[i].ID),
                         !.onBudgetBalance =
                             IF list[i].OnBudget THEN @ + list[i].Balance ELSE @,
                         !.offBudgetBalance =
                             IF list[i].OnBudget THEN @ ELSE @ + list[i].Balance])

RECURSIVE BudgetGroupsLoop(_, _, _)
BudgetGroupsLoop(groups, g, acc) ==
    IF g > Len(groups) THEN acc
    ELSE IF groups[g].Deleted \/ groups[g].Hidden
    THEN BudgetGroupsLoop(groups, g + 1, acc)
    ELSE BudgetGroupsLoop(groups, g + 1,
             Append(acc, [ID |-> groups[g].ID,
                          categories |-> Len(groups[g].Categories)]))

RECURSIVE ActivePayees(_, _)
ActivePayees(list, i) ==
    IF i > Len(list) THEN 0
    ELSE (IF list[i].Deleted THEN 0 ELSE 1) + ActivePayees(list, i + 1)

GetBudgetReport(budget) ==
    [text |-> "Budget",
     accounts |-> Len(budget.Accounts),
     accountLines |-> BudgetAccountsLoop(budget.Accounts, 1,
                          [shown |-> <<>>, onBudgetBalance |-> 0,
                           offBudgetBalance |-> 0]),
     categoryGroups |-> Len(budget.CategoryGroups),
     groupLines |-> BudgetGroupsLoop(budget.CategoryGroups, 1, <<>>),
     totalPayees |-> ActivePayees(budget.Payees, 1)]

\* ---- inputs ----

MaxListed == 2

\* the payees, transactions and categories the upstream may list, the i-th
\* of a list with the i-th ID and amounts
ListedIDs == <<"id-1", "id-2", "id-3", "id-4">>

PayeesAt(i) ==
    { [ID |-> ListedIDs[i], Deleted |-> de, TransferAccountID |-> tr] :
        de \in BOOLEAN, tr \in {"", "acct-1"} }

TransactionsAt(i) ==
    { [ID |-> ListedIDs[i], Deleted |-> de, Amount |-> -Balances[i]] :
        de \in BOOLEAN }

CategoriesAt(i) ==
    { [ID |-> ListedIDs[i], Deleted |-> f[1], Hidden |-> f[2],
       Budgeted |-> Balances[i], Activity |-> -Balances[i + 1],
       Balance |-> Balances[i] - Balances[i + 1]] :
        f \in {<<FALSE, FALSE>>, <<TRUE, FALSE>>, <<FALSE, TRUE>>} }

\* the lists of k entities, the i-th drawn from At(i)
RECURSIVE ListsOf(_, _)
ListsOf(At(_), k) ==
    IF k = 0 THEN {<<>>}
    ELSE { Append(l, e) : l \in ListsOf(At, k - 1), e \in At(k) }

ListsUpTo(At(_), n) == UNION { ListsOf(At, k) : k \in 0..n }

GroupIDs == <<"group-1", "group-2">>

GroupsAt(i) ==
    { [ID |-> GroupIDs[i], Deleted |-> f[1], Hidden |-> f[2], Categories |-> cs] :
        f \in {<<FALSE, FALSE>>, <<TRUE, FALSE>>, <<FALSE, TRUE>>},
        cs \in ListsUpTo(CategoriesAt, MaxListed) }

GroupLists == ListsUpTo(GroupsAt, Len(GroupIDs))

\* the budgets get_budget_details may be given: accounts, one group and
\* payees
BudgetDetails ==
    { [Accounts |-> a, CategoryGroups |-> g, Payees |-> p] :
        a \in UNION { ListsOfAccounts(k) : k \in 0..1 },
        g \in ListsUpTo(GroupsAt, 1),
        p \in ListsUpTo(PayeesAt, MaxListed) }

NoListing == [op |-> "none", data |-> <<>>]

NoReport == [text |-> "none"]

Lists(name, data, made) ==
    /\ listing' = [op |-> name, data |-> data]
    /\ report' = made
    /\ UNCHANGED notListingVars

ListAccounts ==
    /\ listing.op = "none"
    /\ \E list \in AccountLists : Lists("list_accounts", list, ListAccountsReport(list))

ListPayees ==
    /\ listing.op = "none"
    /\ \E list \in ListsUpTo(PayeesAt, MaxListed) :
           Lists("list_payees", list, ListPayeesReport(list))

ListTransactions ==
    /\ listing.op = "none"
    /\ \E list \in ListsUpTo(TransactionsAt, MaxListed) :
           Lists("list_transactions", list, ListTransactionsReport(list))

ListCategories ==
    /\ listing.op = "none"
    /\ \E groups \in GroupLists :
           Lists("list_categories", groups, ListCategoriesReport(groups))

GetBudget ==
    /\ listing.op = "none"
    /\ \E budget \in BudgetDetails :
           Lists("get_budget_details", budget, GetBudgetReport(budget))

(***************************************************************************)
(*      Amounts from and to display units (FloatToMilliunits and back)     *)
(***************************************************************************)

MaxMilliunits == 1100

\* the amounts a caller passes, in thousandths: the float64 a JSON number of
\* at most 3 decimals decodes to is the one nearest to k / 1000
DisplayAmounts == (-MaxMilliunits..MaxMilliunits) \cup {45670, -45670, 65514, -12500}

\* strconv.ParseFloat of the decimal k / 1000: the nearest float64
ParseDecimal(k) ==
    LET num == MagFromInt(Abs(k)) IN
    Float(k < 0, RoundMantissa(MagDivSmall(num, 1000), MagRemSmall(num, 1000) # 0))

NoRoundTrip == [done |-> FALSE, k |-> 0, x |-> FZero, milliunits |-> 0, back |-> FZero]

\* An amount goes through FloatToMilliunits, as in create_transaction, and
\* the result through MilliunitsToFloat, as wherever an amount is shown.
RoundTrip ==
    /\ ~roundTrip.done
    /\ \E k \in DisplayAmounts :
           LET x == ParseDecimal(k)
               stored == FloatToMilliunits(x)
           IN  roundTrip' = [done |-> TRUE, k |-> k, x |-> x, milliunits |-> stored,
                             back |-> MilliunitsToFloat(stored)]
    /\ UNCHANGED notRoundTripVars

(***************************************************************************)
(*            The HTTP transport (src/unnamed/part_006, ServeHTTP)         *)
(*                                                                         *)
(* A URL path is the sequence of its segments: "/" is <<"">>, "/health" is *)
(* <<"health">>, "/mcp/" is <<"mcp", "">>, "/mcp/v1/messages" is           *)
(* <<"mcp", "v1", "messages">>.  The Authorization header is the sequence  *)
(* of the values the request carries under that name.                      *)
(***************************************************************************)

StatusOK == 200

StatusMovedPermanently == 301

StatusUnauthorized == 401

StatusNotFound == 404

Response(code, handler) == [status |-> code, by |-> handler]

\* r.Header.Get("Authorization"): the first value, "" without one
HeaderGet(values) == IF values = <<>> THEN "" ELSE values[1]

\* healthCheckHandler
healthCheckHandler(path, header) == Response(StatusOK, "health")

\* rootHandler: the information text at "/", http.NotFound elsewhere
rootHandler(path, header) ==
    IF path # <<"">> THEN Response(StatusNotFound, "notfound")
    ELSE Response(StatusOK, "root")

\* the streamable HTTP server of the MCP server
mcpServerHandler(path, header) == Response(StatusOK, "mcp")

\* (mutant of authMiddleware: a request without the header is let through)
authMiddlewareLenient(path, header, expectedToken) ==
    LET authHeader == HeaderGet(header)
        expectedAuth == "Bearer " \o expectedToken
    IN  IF authHeader # expectedAuth /\ authHeader # ""
        THEN Response(StatusUnauthorized, "auth")
        ELSE mcpServerHandler(path, header)

\* authMiddleware(next, expectedToken), next being the MCP handler
authMiddleware(path, header, expectedToken) ==
    LET authHeader == HeaderGet(header)
        expectedAuth == "Bearer " \o expectedToken
    IN  IF authHeader # expectedAuth
        THEN Response(StatusUnauthorized, "auth")
        ELSE mcpServerHandler(path, header)

\* `if authToken != "" { mcpHandler = authMiddleware(mcpHandler, authToken) }`
mcpHandler(path, header, token) ==
    IF token # "" THEN authMiddleware(path, header, token)
    ELSE mcpServerHandler(path, header)

\* The mux of ServeHTTP: "/health" matches that path alone, "/mcp/" every
\* path under it (and "/mcp" is redirected to it), "/" all the rest;
\* http.StripPrefix("/mcp", ...) hands the rest of the path on.
ServeMux(path, header, token) ==
    IF path = <<"health">> THEN healthCheckHandler(path, header)
    ELSE IF path = <<"mcp">> THEN Response(StatusMovedPermanently, "redirect")
    ELSE IF path[1] = "mcp" THEN mcpHandler(Tail(path), header, token)
    ELSE rootHandler(path, header)

\* ---- inputs ----

AuthTokens == {"", "secret", "s3cr3t"}

Paths ==
    {<<"">>, <<"health">>, <<"health", "">>, <<"mcp">>, <<"mcp", "">>,
     <<"mcp", "v1", "messages">>, <<"mcpx">>, <<"v1", "messages">>}

AuthorizationHeaders ==
    {<<>>, <<"">>, <<"Bearer secret">>, <<"Bearer s3cr3t">>, <<"bearer secret">>,
     <<"Bearer secret ">>, <<"Bearer  secret">>, <<"Bearer ">>, <<"secret">>,
     <<"Basic secret">>, <<"Bearer wrong", "Bearer secret">>,
     <<"Bearer secret", "Bearer wrong">>}

NoResponse == Response(0, "none")

\* One request served by the mux.
ServeRequest ==
    /\ httpResp = NoResponse
    /\ \E path \in Paths, header \in AuthorizationHeaders :
           /\ httpReq' = [path |-> path, header |-> header]
           /\ httpResp' = ServeMux(path, header, authToken)
    /\ UNCHANGED authToken
    /\ UNCHANGED notHttpVars

(***************************************************************************)
(*     Configuration and start-up (config.Load and serveCmd.Run)           *)
(*                                                                         *)
(* The environment is a record of the variables Load looks at, "" or <<>>  *)
(* for one that is unset or empty; the port variable is the sequence of    *)
(* its characters.  The config file is the JSON object read from it.       *)
(***************************************************************************)

defaultHTTPPort == 8080

\* v.SetDefault(...)
Defaults == ("transport_mode" :> "stdio") @@ ("http_port" :> defaultHTTPPort)

\* the variable v.AutomaticEnv() with the prefix YNAB_MCP consults for a key
EnvOf(env, key) ==
    CASE key = "ynab_access_token" -> env.YNAB_MCP_YNAB_ACCESS_TOKEN
      [] key = "transport_mode" -> env.YNAB_MCP_TRANSPORT_MODE
      [] key = "http_port" -> env.YNAB_MCP_HTTP_PORT

\* `if token := os.Getenv("YNAB_ACCESS_TOKEN"); token != "" { v.Set(...) }`
Overrides(env) ==
    IF env.YNAB_ACCESS_TOKEN # "" THEN ("ynab_access_token" :> env.YNAB_ACCESS_TOKEN)
    ELSE EmptyObject

\* The value viper finds for a key: an explicit Set, then a non-empty
\* environment variable, then the config file, then the default.
ViperFind(key, env, fileRead) ==
    IF key \in DOMAIN Overrides(env) THEN [found |-> TRUE, from |-> "set", v |-> Overrides(env)[key]]
    ELSE IF EnvOf(env, key) # (IF key = "http_port" THEN <<>> ELSE "")
    THEN [found |-> TRUE, from |-> "env", v |-> EnvOf(env, key)]
    ELSE IF key \in DOMAIN fileRead
    THEN [found |-> TRUE, from |-> "file", v |-> fileRead[key]]
    ELSE IF key \in DOMAIN Defaults
    THEN [found |-> TRUE, from |-> "default", v |-> Defaults[key]]
    ELSE [found |-> FALSE, from |-> "", v |-> ""]

\* v.GetString
GetString(key, env, fileRead) ==
    LET f == ViperFind(key, env, fileRead) IN IF f.found THEN f.v ELSE ""

\* v.GetInt: a number as it is, the decimal text of an environment variable
\* parsed, 0 for a text that is no number
GetInt(key, env, fileRead) ==
    LET f == ViperFind(key, env, fileRead) IN
    IF ~f.found THEN 0
    ELSE IF f.from = "env"
    THEN IF AllDigits(f.v, 1, Len(f.v)) THEN Atoi(f.v, 1, Len(f.v)) ELSE 0
    ELSE f.v

\* what v.ReadInConfig() leaves in v: the object of a file that could be
\* read, nothing otherwise
FileRead(file) == IF file.readable THEN file.content ELSE EmptyObject

\* Load(configPath)
Load(env, file) ==
    IF file.explicit /\ ~file.readable
    THEN [err |-> "failed to read config file", cfg |-> EmptyObject]
    ELSE LET cfg == [YNABToken |-> GetString("ynab_access_token", env, FileRead(file)),
                     TransportMode |-> GetString("transport_mode", env, FileRead(file)),
                     HTTPPort |-> GetInt("http_port", env, FileRead(file))]
         IN  IF cfg.YNABToken = ""
             THEN [err |-> "YNAB access token is required", cfg |-> EmptyObject]
             ELSE [err |-> "", cfg |-> cfg]

\* (mutant of OverrideFromFlags: the flag values taken whether or not the
\* flags were given)
OverrideFromFlagsAlways(cfg, flags) ==
    [cfg EXCEPT !.TransportMode = flags.transport, !.HTTPPort = flags.port]

\* `if cmd.Flags().Changed("transport") { cfg.TransportMode = transport }`
\* and the same for port
OverrideFromFlags(cfg, flags) ==
    [cfg EXCEPT !.TransportMode = IF "transport" \in flags.changed
                                  THEN flags.transport ELSE @,
                !.HTTPPort = IF "port" \in flags.changed THEN flags.port ELSE @]

\* serveCmd.Run: what is served, or the fatal message
Run(flags, env, file) ==
    LET loaded == Load(env, file) IN
    IF loaded.err # ""
    THEN [serving |-> "none", fatal |-> "Failed to load configuration",
          err |-> loaded.err, cfg |-> EmptyObject, port |-> 0]
    ELSE LET cfg == OverrideFromFlags(loaded.cfg, flags) IN
         IF cfg.TransportMode = "stdio"
         THEN [serving |-> "stdio", fatal |-> "", err |-> "", cfg |-> cfg, port |-> 0]
         ELSE IF cfg.TransportMode = "http"
         THEN [serving |-> "http", fatal |-> "", err |-> "", cfg |-> cfg,
               port |-> cfg.HTTPPort]
         ELSE [serving |-> "none", fatal |-> "Invalid transport mode", err |-> "",
               cfg |-> cfg, port |-> 0]

\* ---- inputs ----

\* the flags of `serve`: a flag that was not given holds its default
FlagSets ==
    { f \in [changed : SUBSET {"transport", "port"},
             transport : {"stdio", "http", "sse"}, port : {defaultHTTPPort, 9000}] :
        /\ "transport" \notin f.changed => f.transport = "stdio"
        /\ "port" \notin f.changed => f.port = defaultHTTPPort }

Environments ==
    [YNAB_ACCESS_TOKEN : {"", "token-env"},
     YNAB_MCP_YNAB_ACCESS_TOKEN : {"", "token-prefixed"},
     YNAB_MCP_TRANSPORT_MODE : {"", "stdio", "http"},
     YNAB_MCP_HTTP_PORT : {<<>>, <<"9", "1", "0", "0">>, <<"a", "b">>}]

Member(key, values) == {EmptyObject} \cup {key :> v : v \in values}

FileContents ==
    { t @@ m @@ p : t \in Member("ynab_access_token", {"token-file"}),
                    m \in Member("transport_mode", {"stdio", "http", "ws"}),
                    p \in Member("http_port", {9200}) }

\* the config file: named by --config or at the default location, readable
\* or not
ConfigFiles ==
    [explicit : BOOLEAN, readable : {TRUE}, content : FileContents]
    \cup [explicit : BOOLEAN, readable : {FALSE}, content : {EmptyObject}]

NoStart == [done |-> FALSE, flags |-> [changed |-> {}, transport |-> "stdio",
                                       port |-> defaultHTTPPort],
            env |-> [YNAB_ACCESS_TOKEN |-> "", YNAB_MCP_YNAB_ACCESS_TOKEN |-> "",
                     YNAB_MCP_TRANSPORT_MODE |-> "", YNAB_MCP_HTTP_PORT |-> <<>>],
            file |-> [explicit |-> FALSE, readable |-> FALSE, content |-> EmptyObject]]

NoOutcome == [serving |-> "none", fatal |-> "", err |-> "", cfg |-> EmptyObject,
              port |-> 0]

\* `ynab-mcp-server serve` is run.
Serve ==
    /\ ~startup.done
    /\ \E flags \in FlagSets, env \in Environments, file \in ConfigFiles :
           /\ startup' = [done |-> TRUE, flags |-> flags, env |-> env, file |-> file]
           /\ started' = Run(flags, env, file)
    /\ UNCHANGED notStartupVars

(***************************************************************************)
(*          The month window (getLastNMonths, part_008)                    *)
(***************************************************************************)

maxMonths == 24

\* time.Date(year, month, day, ...) for a month that may lie outside 1..12
\* and a day of 1..31: the month is brought into range by carrying into the
\* year, and a day past the end of that month runs on into the next month.
Date(year, month, day) ==
    LET y == year + ((month - 1) \div 12)
        mo == ((month - 1) % 12) + 1
    IN  IF day <= daysIn(mo, y) THEN [year |-> y, month |-> mo, day |-> day]
        ELSE IF mo = 12 THEN [year |-> y + 1, month |-> 1, day |-> day - daysIn(mo, y)]
        ELSE [year |-> y, month |-> mo + 1, day |-> day - daysIn(mo, y)]

\* func (t Time) AddDate(years int, months int, days int) Time
AddDate(t, years, mons, days) == Date(t.year + years, t.month + mons, t.day + days)

\* func getLastNMonths(n int) []string, with time.Now() = t
getLastNMonths(n, t) ==
    LET k == IF n < 1 THEN 1 ELSE IF n > maxMonths THEN maxMonths ELSE n
    IN  [j \in 1..k |-> getMonthString(AddDate(t, 0, -(k - j), 0))]

\* ---- inputs ----

NumYears == 2

\* the days time.Now() may fall on: the first and the last days of every
\* month of the years from 2023 (2024 is a leap year)
Clocks ==
    { [year |-> y, month |-> mo, day |-> d] :
        y \in 2023..(2023 + NumYears - 1), mo \in 1..12, d \in {1, 15, 28, 29, 30, 31} }

ValidClocks == { t \in Clocks : t.day <= daysIn(t.month, t.year) }

NoWindow == [done |-> FALSE, n |-> 0, months |-> <<>>]

\* getLastNMonths is called, as get_spending_by_month does with num_months.
GetLastNMonths ==
    /\ ~window.done
    /\ \E n \in 0..(maxMonths + 1) :
           window' = [done |-> TRUE, n |-> n, months |-> getLastNMonths(n, clock)]
    /\ UNCHANGED clock
    /\ UNCHANGED notWindowVars

(***************************************************************************)
(*   The date window of get_spending_by_category and get_payee_summary     *)
(***************************************************************************)

\* func (t Time) After(u Time) bool
After(t, u) == t.abs > u.abs

\* "Filter transactions to until_date": a transaction is kept when its date
\* parses and is not after until_date; since_date went into the query only
RECURSIVE FilterToUntil(_, _, _)
FilterToUntil(transactions, i, untilTime) ==
    IF i > Len(transactions) THEN <<>>
    ELSE LET txDate == parseDate(transactions[i].Date) IN
         IF ~txDate.ok THEN FilterToUntil(transactions, i + 1, untilTime)
         ELSE IF ~After(txDate, untilTime)
         THEN <<transactions[i]>> \o FilterToUntil(transactions, i + 1, untilTime)
         ELSE FilterToUntil(transactions, i + 1, untilTime)

\* ---- inputs ----

\* the since_date and until_date arguments a caller passes
SinceDates == {DateStr(2024, 1, 1), DateStr(2024, 2, 1)}

UntilDates == {DateStr(2024, 1, 31), DateStr(2024, 2, 10), DateStr(2024, 2, 29)}

NoRanged == [op |-> "none", since |-> <<>>, until |-> <<>>, filtered |-> <<>>,
             summaries |-> EmptyMap]

\* get_spending_by_category from the validated date range on: the list the
\* upstream returned for the query is filtered and aggregated.
SpendingByCategoryInRange ==
    /\ ranged.op = "none"
    /\ \E since \in SinceDates, until \in UntilDates :
           /\ validateDateRange(since, until)[1] = "nil"
           /\ LET filteredTxs == FilterToUntil(txs, 1, parseDate(until)) IN
              ranged' = [op |-> "get_spending_by_category", since |-> since,
                         until |-> until, filtered |-> filteredTxs,
                         summaries |-> aggregateByCategory(filteredTxs)]
    /\ UNCHANGED notRangedVars

\* get_payee_summary likewise, up to the aggregation.
PayeeSummaryInRange ==
    /\ ranged.op = "none"
    /\ \E since \in SinceDates, until \in UntilDates :
           /\ validateDateRange(since, until)[1] = "nil"
           /\ LET filteredTxs == FilterToUntil(txs, 1, parseDate(until)) IN
              ranged' = [op |-> "get_payee_summary", since |-> since,
                         until |-> until, filtered |-> filteredTxs,
                         summaries |-> aggregateByPayee(filteredTxs)]
    /\ UNCHANGED notRangedVars

(***************************************************************************)
(*                         Specifications                                  *)
(***************************************************************************)

ClientCalls == {1}

ClientIdle ==
    /\ pc = [c \in ClientCalls |-> "idle"]
    /\ req = [c \in ClientCalls |-> NoRequest]
    /\ attempt = [c \in ClientCalls |-> 0]
    /\ lastErr = [c \in ClientCalls |-> NilErr]
    /\ delays = [c \in ClientCalls |-> <<>>]
    /\ log = [c \in ClientCalls |-> <<>>]
    /\ ret = [c \in ClientCalls |-> RetNone]

AggIdle ==
    /\ txs = <<>>
    /\ aggOut = NoAgg

BalIdle ==
    /\ accounts = <<>>
    /\ balOut = NoBalances

DateIdle ==
    /\ sinceDate = <<>>
    /\ untilDate = <<>>
    /\ dateOut = <<"none", "">>

ToolIdle ==
    /\ tool = "none"
    /\ argsIsMap = TRUE
    /\ callArgs = NotAMap
    /\ issued = <<>>
    /\ result = NoResult

LookupIdle ==
    /\ lookup = NoLookup
    /\ lookupRet = Failed(NilErr)

PayeeIdle ==
    /\ payeeSummaries = <<>>
    /\ topNArg = AbsentArg
    /\ payees = <<>>
    /\ payeeDone = FALSE

\* ---- concurrent callers of one client ----

NumCalls == 2

\* The requests and upstream outcomes of the concurrent calls: a read; a
\* transport failure, a rate limit, a success and a server error.
PairRequests ==
    {[method |-> "GET", hasBody |-> FALSE, pathOK |-> TRUE, hasResult |-> TRUE]}

PairOutcomes ==
    {[kind |-> "neterr", cause |-> "timeout", status |-> 0, body |-> NoBody],
     [kind |-> "resp", cause |-> "", status |-> 429, body |-> NoBody],
     [kind |-> "resp", cause |-> "", status |-> 200,
      body |-> [errParse |-> FALSE, detail |-> "", dataParse |-> TRUE]],
     [kind |-> "resp", cause |-> "", status |-> 500,
      body |-> [errParse |-> TRUE, detail |-> "invalid date", dataParse |-> FALSE]]}

InPairInputs ==
    \A c \in DOMAIN pc :
        /\ pc[c] # "idle" => req[c] \in PairRequests
        /\ \A k \in 1..Len(log[c]) : log[c][k] \in PairOutcomes

ListingIdle ==
    /\ listing = NoListing
    /\ report = NoReport

RoundTripIdle ==
    /\ roundTrip = NoRoundTrip

HttpIdle ==
    /\ authToken = ""
    /\ httpReq = [path |-> <<"">>, header |-> <<>>]
    /\ httpResp = NoResponse

StartupIdle ==
    /\ startup = NoStart
    /\ started = NoOutcome

CategoryIdle ==
    /\ categorySummaries = <<>>
    /\ categoryList = <<>>
    /\ categoryDone = FALSE

WindowIdle ==
    /\ clock = [year |-> 2024, month |-> 1, day |-> 1]
    /\ window = NoWindow

RangedIdle ==
    /\ ranged = NoRanged

\* One caller of the API client.
InitClient == ClientIdle /\ AggIdle /\ BalIdle /\ DateIdle /\ ToolIdle /\ LookupIdle /\ PayeeIdle /\ ListingIdle /\ RoundTripIdle /\ HttpIdle /\ StartupIdle /\ CategoryIdle /\ WindowIdle /\ RangedIdle

NextClient ==
    \E c \in DOMAIN pc : Call(c) \/ Backoff(c) \/ Send(c) \/ Exhausted(c)

SpecClient == InitClient /\ [][NextClient]_vars

\* The aggregation functions applied to a transaction list.
InitAgg ==
    /\ ClientIdle /\ BalIdle /\ DateIdle /\ ToolIdle /\ LookupIdle /\ PayeeIdle /\ ListingIdle /\ RoundTripIdle /\ HttpIdle /\ StartupIdle /\ CategoryIdle /\ WindowIdle /\ RangedIdle
    /\ txs \in SeqsUpTo(Transactions, MaxTxs)
    /\ aggOut = NoAgg

NextAgg == AggregateByCategory \/ AggregateByPayee \/ AggregateByMonth

SpecAgg == InitAgg /\ [][NextAgg]_vars

\* get_account_balances on an account list.
InitBal ==
    /\ ClientIdle /\ AggIdle /\ DateIdle /\ ToolIdle /\ LookupIdle /\ PayeeIdle /\ ListingIdle /\ RoundTripIdle /\ HttpIdle /\ StartupIdle /\ CategoryIdle /\ WindowIdle /\ RangedIdle
    /\ accounts \in AccountLists
    /\ balOut = NoBalances

NextBal == GetAccountBalances

SpecBal == InitBal /\ [][NextBal]_vars

\* validateDateRange on a pair of arguments.
InitDate ==
    /\ ClientIdle /\ AggIdle /\ BalIdle /\ ToolIdle /\ LookupIdle /\ PayeeIdle /\ ListingIdle /\ RoundTripIdle /\ HttpIdle /\ StartupIdle /\ CategoryIdle /\ WindowIdle /\ RangedIdle
    /\ sinceDate \in DateArgs
    /\ untilDate \in DateArgs
    /\ dateOut = <<"none", "">>

NextDate == ValidateDateRange

SpecDate == InitDate /\ [][NextDate]_vars

\* One invocation of one tool.
InitTool == ClientIdle /\ AggIdle /\ BalIdle /\ DateIdle /\ ToolIdle /\ LookupIdle /\ PayeeIdle /\ ListingIdle /\ RoundTripIdle /\ HttpIdle /\ StartupIdle /\ CategoryIdle /\ WindowIdle /\ RangedIdle

NextTool ==
    \/ InvokeListBudgets
    \/ InvokeGetBudget
    \/ InvokeListAccounts
    \/ InvokeGetAccount
    \/ InvokeListTransactions
    \/ InvokeGetTransaction
    \/ InvokeCreateTransaction
    \/ InvokeUpdateTransaction
    \/ InvokeListCategories
    \/ InvokeGetCategory
    \/ InvokeListPayees
    \/ InvokeGetSpendingByCategory
    \/ InvokeGetSpendingByMonth
    \/ InvokeGetBudgetSummary
    \/ InvokeGetPayeeSummary
    \/ InvokeGetAccountBalances

SpecTool == InitTool /\ [][NextTool]_vars

\* One point lookup on a list result.
InitLookup == ClientIdle /\ AggIdle /\ BalIdle /\ DateIdle /\ ToolIdle /\ LookupIdle /\ PayeeIdle /\ ListingIdle /\ RoundTripIdle /\ HttpIdle /\ StartupIdle /\ CategoryIdle /\ WindowIdle /\ RangedIdle

NextLookup == LookupAccount \/ LookupPayee \/ LookupCategory

SpecLookup == InitLookup /\ [][NextLookup]_vars

\* ---- the limited payee list --------------------------------------------
InitPayee == ClientIdle /\ AggIdle /\ BalIdle /\ DateIdle /\ ToolIdle /\ LookupIdle /\ PayeeIdle /\ ListingIdle /\ RoundTripIdle /\ HttpIdle /\ StartupIdle /\ CategoryIdle /\ WindowIdle /\ RangedIdle

NextPayee == PayeeSummaryTopN \/ CategorySummarySorted

SpecPayee == InitPayee /\ [][NextPayee]_vars

\* Several goroutines inside doRequest of one client, in any interleaving.
InitPair ==
    /\ pc = [c \in 1..NumCalls |-> "idle"]
    /\ req = [c \in 1..NumCalls |-> NoRequest]
    /\ attempt = [c \in 1..NumCalls |-> 0]
    /\ lastErr = [c \in 1..NumCalls |-> NilErr]
    /\ delays = [c \in 1..NumCalls |-> <<>>]
    /\ log = [c \in 1..NumCalls |-> <<>>]
    /\ ret = [c \in 1..NumCalls |-> RetNone]
    /\ AggIdle /\ BalIdle /\ DateIdle /\ ToolIdle /\ LookupIdle /\ PayeeIdle /\ ListingIdle /\ RoundTripIdle /\ HttpIdle /\ StartupIdle /\ CategoryIdle /\ WindowIdle /\ RangedIdle

NextPair ==
    \E c \in DOMAIN pc :
        /\ Call(c) \/ Backoff(c) \/ Send(c) \/ Exhausted(c)
        /\ InPairInputs'

SpecPair == InitPair /\ [][NextPair]_vars

\* The listing tools applied to what the upstream lists.
InitListing == ClientIdle /\ AggIdle /\ BalIdle /\ DateIdle /\ ToolIdle /\ LookupIdle /\ PayeeIdle /\ ListingIdle /\ RoundTripIdle /\ HttpIdle /\ StartupIdle /\ CategoryIdle /\ WindowIdle /\ RangedIdle

NextListing ==
    ListAccounts \/ ListPayees \/ ListTransactions \/ ListCategories \/ GetBudget

SpecListing == InitListing /\ [][NextListing]_vars

\* Amounts converted to milliunits and back.
InitRoundTrip == ClientIdle /\ AggIdle /\ BalIdle /\ DateIdle /\ ToolIdle /\ LookupIdle /\ PayeeIdle /\ ListingIdle /\ RoundTripIdle /\ HttpIdle /\ StartupIdle /\ CategoryIdle /\ WindowIdle /\ RangedIdle

NextRoundTrip == RoundTrip

SpecRoundTrip == InitRoundTrip /\ [][NextRoundTrip]_vars

\* The HTTP transport started with an auth token, serving a request.
InitHTTP ==
    /\ ClientIdle /\ AggIdle /\ BalIdle /\ DateIdle /\ ToolIdle /\ LookupIdle /\ PayeeIdle /\ ListingIdle /\ RoundTripIdle /\ StartupIdle /\ CategoryIdle /\ WindowIdle /\ RangedIdle
    /\ authToken \in AuthTokens
    /\ httpReq = [path |-> <<"">>, header |-> <<>>]
    /\ httpResp = NoResponse

NextHTTP == ServeRequest

SpecHTTP == InitHTTP /\ [][NextHTTP]_vars

\* The serve command run with flags, an environment and a config file.
InitStartup == ClientIdle /\ AggIdle /\ BalIdle /\ DateIdle /\ ToolIdle /\ LookupIdle /\ PayeeIdle /\ ListingIdle /\ RoundTripIdle /\ HttpIdle /\ StartupIdle /\ CategoryIdle /\ WindowIdle /\ RangedIdle

NextStartup == Serve

SpecStartup == InitStartup /\ [][NextStartup]_vars

\* ---- the month window ---------------------------------------------------
InitWindow ==
    /\ ClientIdle /\ AggIdle /\ BalIdle /\ DateIdle /\ ToolIdle /\ LookupIdle /\ PayeeIdle /\ ListingIdle /\ RoundTripIdle /\ HttpIdle /\ StartupIdle /\ CategoryIdle /\ RangedIdle
    /\ clock \in ValidClocks
    /\ window = NoWindow

NextWindow == GetLastNMonths

SpecWindow == InitWindow /\ [][NextWindow]_vars

\* ---- the date window of the summaries -----------------------------------
InitRanged ==
    /\ ClientIdle /\ BalIdle /\ DateIdle /\ ToolIdle /\ LookupIdle /\ PayeeIdle /\ ListingIdle /\ RoundTripIdle /\ HttpIdle /\ StartupIdle /\ CategoryIdle /\ WindowIdle
    /\ txs \in SeqsUpTo(Transactions, MaxTxs)
    /\ aggOut = NoAgg
    /\ ranged = NoRanged

NextRanged == SpendingByCategoryInRange \/ PayeeSummaryInRange

SpecRanged == InitRanged /\ [][NextRanged]_vars

(***************************************************************************)
(*                   Properties of Client.doRequest                        *)
(***************************************************************************)

LastOutcome(c) == log[c][Len(log[c])]

\* A retryable failure as the specification lists them.
RetryableFailure(o) ==
    o.kind \in {"neterr", "readerr"} \/ (o.kind = "resp" /\ o.status = 429)

\* A fully read response the specification calls a success.
SuccessFor(r, o) ==
    o.kind = "resp" /\ o.status < 400 /\ (r.hasResult => o.body.dataParse)

\* C1: a call makes at most 3 HTTP attempts, every attempt but the last one
\* made ended in a retryable failure (network failure, response-read failure
\* or HTTP 429), and once the third attempt is over the call has returned or
\* its only possible step is the return.
C1_AtMostThreeAttempts ==
    \A c \in DOMAIN pc :
        /\ Len(log[c]) <= 3
        /\ \A k \in 1..(Len(log[c]) - 1) : RetryableFailure(log[c][k])
        /\ (Len(log[c]) = 3 /\ pc[c] # "done") =>
               /\ ~ENABLED Backoff(c)
               /\ ~ENABLED Send(c)
               /\ ENABLED Exhausted(c)

C1_Witness ==
    /\ pc[1] = "done"
    /\ Len(log[1]) = 3
    /\ RetryableFailure(log[1][3])
    /\ ret[1].err.kind = "request failed after attempts"

\* C2 (as claimed): an attempt that received a status >= 400 other than 429 is
\* the last attempt of the call, the call has returned an error, and no
\* backoff delay follows that attempt.
C2_AnyStatusTerminal ==
    \A c \in DOMAIN pc : \A k \in 1..Len(log[c]) :
        (log[c][k].kind \in {"resp", "readerr"}
            /\ log[c][k].status >= 400 /\ log[c][k].status # 429) =>
            /\ k = Len(log[c])
            /\ pc[c] = "done"
            /\ ret[c].err.kind # "nil"
            /\ Len(delays[c]) = k - 1

\* C2 (amended): the same for every response whose body was read in full:
\* status >= 400 other than 429 ends the call with an error on that attempt,
\* whichever of the attempts 1, 2, 3 it is, with no delay or attempt after it.
C2_ReadStatusTerminal ==
    \A c \in DOMAIN pc : \A k \in 1..Len(log[c]) :
        (log[c][k].kind = "resp"
            /\ log[c][k].status >= 400 /\ log[c][k].status # 429) =>
            /\ k = Len(log[c])
            /\ pc[c] = "done"
            /\ ret[c].err.kind # "nil"
            /\ Len(delays[c]) = k - 1

C2_Witness ==
    /\ pc[1] = "done"
    /\ Len(log[1]) = 2
    /\ log[1][2].kind = "resp"
    /\ log[1][2].status = 500
    /\ ret[1].err.status = 500

\* C3: attempt 1 is made after no delay and attempt k (k = 2, 3) after delays
\* of exactly 2^(k-2) seconds: the delays taken are <<>>, <<1>>, <<1, 2>> when
\* attempts 1, 2, 3 are made; a call with transport errors on attempts 1 and
\* 2 and a success on attempt 3 returns success after the delays <<1, 2>>.
C3_BackoffSchedule ==
    \A c \in DOMAIN pc :
        /\ pc[c] = "send" => delays[c] = SubSeq(<<1, 2>>, 1, Len(log[c]))
        /\ (pc[c] \in {"loop", "done"} /\ Len(log[c]) > 0) =>
               delays[c] = SubSeq(<<1, 2>>, 1, Len(log[c]) - 1)
        /\ (/\ pc[c] = "done"
            /\ Len(log[c]) = 3
            /\ log[c][1].kind = "neterr"
            /\ log[c][2].kind = "neterr"
            /\ SuccessFor(req[c], log[c][3])) =>
               /\ ret[c].err.kind = "nil"
               /\ ret[c].decoded = req[c].hasResult
               /\ delays[c] = <<1, 2>>

C3_Witness ==
    /\ pc[1] = "done"
    /\ Len(log[1]) = 3
    /\ log[1][1].kind = "neterr"
    /\ log[1][2].kind = "neterr"
    /\ SuccessFor(req[1], log[1][3])
    /\ delays[1] = <<1, 2>>

\* The kind of error a retryable failure is reported as.
FailureKind(o) ==
    IF o.kind = "neterr" THEN "request failed"
    ELSE IF o.kind = "readerr" THEN "failed to read response"
    ELSE "rate limit exceeded"

\* C4: when all three attempts end in a retryable failure the call returns
\* the "after 3 attempts" error wrapping the error of the third attempt.
C4_ExhaustedWrapsLast ==
    \A c \in DOMAIN pc :
        (/\ pc[c] = "done"
         /\ Len(log[c]) = 3
         /\ \A k \in 1..3 : RetryableFailure(log[c][k])) =>
            /\ ret[c].err.kind = "request failed after attempts"
            /\ ret[c].err.attempts = 3
            /\ ret[c].wraps.kind = FailureKind(log[c][3])
            /\ ret[c].wraps.cause = log[c][3].cause

C4_Witness ==
    /\ pc[1] = "done"
    /\ Len(log[1]) = 3
    /\ log[1][1].kind = "neterr"
    /\ log[1][2].kind = "resp" /\ log[1][2].status = 429
    /\ log[1][3].kind = "readerr"
    /\ ret[1].wraps.kind = "failed to read response"

\* C5: a terminal HTTP error carries the status code; it carries the upstream
\* detail text exactly when the body parsed as the error shape with a
\* non-empty detail, and otherwise only "status <code>".
C5_TerminalErrorText ==
    \A c \in DOMAIN pc :
        (/\ pc[c] = "done"
         /\ Len(log[c]) > 0
         /\ LastOutcome(c).kind = "resp"
         /\ LastOutcome(c).status >= 400
         /\ LastOutcome(c).status # 429) =>
            /\ ret[c].err.status = LastOutcome(c).status
            /\ IF LastOutcome(c).body.errParse /\ LastOutcome(c).body.detail # ""
               THEN /\ ret[c].err.kind = "YNAB API error (status): detail"
                    /\ ret[c].err.detail = LastOutcome(c).body.detail
               ELSE /\ ret[c].err.kind = "YNAB API error: status"
                    /\ ret[c].err.detail = ""

C5_Witness ==
    /\ pc[1] = "done"
    /\ Len(log[1]) = 1
    /\ log[1][1].status = 404
    /\ log[1][1].body.detail = "transaction not found"
    /\ ret[1].err.detail = "transaction not found"
    /\ ret[1].err.status = 404

(***************************************************************************)
(*                 Properties of the aggregation functions                 *)
(***************************************************************************)

\* The shared exclusion rule as the specification states it.
NotExcluded(tx) == ~tx.Deleted /\ tx.TransferAccountID = ""

Included(list) == SelectSeq(list, NotExcluded)

RECURSIVE CountOver(_, _)
CountOver(summaries, keys) ==
    IF keys = {} THEN 0
    ELSE LET k == CHOOSE x \in keys : TRUE IN
         summaries[k].TransactionCount + CountOver(summaries, keys \ {k})

\* the transactionCount of all buckets together
TotalCount(summaries) == CountOver(summaries, DOMAIN summaries)

\* C6: in the three aggregation functions a soft-deleted transaction and a
\* transaction with a non-empty transferAccountID contribute to no bucket:
\* the result is the result for the list without them (no total, net or
\* count differs and no bucket is added), and the counts of all buckets
\* together do not exceed the number of the other transactions.
C6_ExcludedContributeNothing ==
    /\ aggOut.op = "category" =>
           /\ aggOut.summaries = aggregateByCategory(Included(txs))
           /\ TotalCount(aggOut.summaries) = Len(Included(txs))
           /\ (Included(txs) = <<>>) => (DOMAIN aggOut.summaries = {})
    /\ aggOut.op = "payee" =>
           /\ aggOut.summaries = aggregateByPayee(Included(txs))
           /\ TotalCount(aggOut.summaries) = Len(Included(txs))
           /\ (Included(txs) = <<>>) => (DOMAIN aggOut.summaries = {})
    /\ aggOut.op = "month" =>
           /\ aggOut.summaries = aggregateByMonth(Included(txs), aggOut.months)
           /\ TotalCount(aggOut.summaries) <= Len(Included(txs))
           /\ DOMAIN aggOut.summaries = {aggOut.months[i] : i \in 1..Len(aggOut.months)}

C6_Witness ==
    /\ aggOut.op = "category"
    /\ Len(txs) = 3
    /\ txs[1].Deleted
    /\ NotExcluded(txs[2])
    /\ txs[3].TransferAccountID # ""
    /\ TotalCount(aggOut.summaries) = 1

\* the orders in which the buckets of a map can be visited
Orders(S) ==
    { f \in [1..Cardinality(S) -> S] : \A i, j \in DOMAIN f : f[i] = f[j] => i = j }

RECURSIVE FSumOutflow(_, _, _)
FSumOutflow(summaries, order, n) ==
    IF n = 0 THEN FZero
    ELSE FAdd(FSumOutflow(summaries, order, n - 1), summaries[order[n]].TotalOutflow)

RECURSIVE FSumInflow(_, _, _)
FSumInflow(summaries, order, n) ==
    IF n = 0 THEN FZero
    ELSE FAdd(FSumInflow(summaries, order, n - 1), summaries[order[n]].TotalInflow)

RECURSIVE FSumNet(_, _, _)
FSumNet(summaries, order, n) ==
    IF n = 0 THEN FZero
    ELSE FAdd(FSumNet(summaries, order, n - 1), summaries[order[n]].Net)

\* C7 (as claimed): over the category summaries of any transaction list,
\* sum(totalOutflow) - sum(totalInflow) equals -sum(net), in whichever order
\* the buckets are summed.
C7_SignConsistency ==
    aggOut.op = "category" =>
        \A order \in Orders(DOMAIN aggOut.summaries) :
            LET n == Len(order) IN
            FEq(FSub(FSumOutflow(aggOut.summaries, order, n),
                     FSumInflow(aggOut.summaries, order, n)),
                FNeg(FSumNet(aggOut.summaries, order, n)))

ZeroBucket(b) ==
    /\ FEq(b.TotalOutflow, FZero)
    /\ FEq(b.TotalInflow, FZero)
    /\ FEq(b.Net, FZero)
    /\ b.TransactionCount = 0

\* an included transaction whose date is a calendar date of month m
FallsIn(tx, m) ==
    NotExcluded(tx) /\ parseDate(tx.Date).ok /\ SubSeq(tx.Date, 1, 7) = m

\* C8: month aggregation yields one bucket per entry of the month list, in
\* the order of the list, and the bucket of a month in which no included
\* transaction falls has outflow, inflow, net and count zero.
C8_OneBucketPerMonth ==
    aggOut.op = "month" =>
        /\ Len(aggOut.monthData) = Len(aggOut.months)
        /\ \A i \in 1..Len(aggOut.months) :
               /\ aggOut.monthData[i].ID = aggOut.months[i]
               /\ (\A k \in 1..Len(txs) : ~FallsIn(txs[k], aggOut.months[i])) =>
                      ZeroBucket(aggOut.monthData[i])

C8_Witness ==
    /\ aggOut.op = "month"
    /\ aggOut.months = <<MonthStr(2024, 2), MonthStr(2024, 3)>>
    /\ Len(txs) = 2
    /\ aggOut.monthData[1].TransactionCount = 2
    /\ ZeroBucket(aggOut.monthData[2])

(***************************************************************************)
(*                  Properties of get_account_balances                     *)
(***************************************************************************)

Listed(account) == ~account.Deleted

OpenOnBudget(account) == ~account.Deleted /\ ~account.Closed /\ account.OnBudget

OpenOffBudget(account) == ~account.Deleted /\ ~account.Closed /\ ~account.OnBudget

\* the balances of a list of accounts, in display units, added up in order
RECURSIVE FSumBalances(_, _)
FSumBalances(accts, n) ==
    IF n = 0 THEN FZero
    ELSE FAdd(FSumBalances(accts, n - 1), MilliunitsToFloat(accts[n].Balance))

FTotal(accts) == FSumBalances(accts, Len(accts))

\* a whole number of display units
FWhole(n) == Float(n < 0, MagFromInt(IF n < 0 THEN -n ELSE n))

\* C9: every non-deleted account, closed ones included, is listed exactly
\* once and in the order of the upstream list; total_on_budget is the sum of
\* the balances of the non-deleted, non-closed on-budget accounts,
\* total_off_budget that of the non-deleted, non-closed off-budget ones, and
\* net_worth is total_on_budget + total_off_budget.
C9_BalanceSnapshot ==
    balOut.op = "balances" =>
        LET listed == SelectSeq(accounts, Listed) IN
        /\ Len(balOut.accounts) = Len(listed)
        /\ \A i \in 1..Len(listed) :
               /\ balOut.accounts[i].AccountID = listed[i].ID
               /\ balOut.accounts[i].Closed = listed[i].Closed
               /\ balOut.accounts[i].OnBudget = listed[i].OnBudget
               /\ FEq(balOut.accounts[i].CurrentBalance,
                      MilliunitsToFloat(listed[i].Balance))
        /\ FEq(balOut.total_on_budget, FTotal(SelectSeq(accounts, OpenOnBudget)))
        /\ FEq(balOut.total_off_budget, FTotal(SelectSeq(accounts, OpenOffBudget)))
        /\ FEq(balOut.net_worth,
               FAdd(balOut.total_on_budget, balOut.total_off_budget))

\* The spec's example: A (100000, on-budget, open), B (50000, off-budget,
\* open), C (99999, on-budget, closed) gives 100.00, 50.00 and 150.00, with
\* C listed and left out of every total.
C9_Witness ==
    /\ balOut.op = "balances"
    /\ Len(accounts) = 3
    /\ \A i \in 1..3 : ~accounts[i].Deleted
    /\ accounts[1].OnBudget /\ ~accounts[1].Closed /\ accounts[1].Balance = 100000
    /\ ~accounts[2].OnBudget /\ ~accounts[2].Closed /\ accounts[2].Balance = 50000
    /\ accounts[3].OnBudget /\ accounts[3].Closed /\ accounts[3].Balance = 99999
    /\ Len(balOut.accounts) = 3
    /\ balOut.accounts[3].AccountID = "C"
    /\ FEq(balOut.total_on_budget, FWhole(100))
    /\ FEq(balOut.total_off_budget, FWhole(50))
    /\ FEq(balOut.net_worth, FWhole(150))

(***************************************************************************)
(*                     Properties of validateDateRange                     *)
(***************************************************************************)

\* The days of the civil calendar in the years the arguments name.
CivilYears == {1, 2022, 2023, 2024, 9999}

CivilMonthLength(y, m) ==
    IF m \in {4, 6, 9, 11} THEN 30
    ELSE IF m # 2 THEN 31
    ELSE IF (y % 4 = 0 /\ y % 100 # 0) \/ y % 400 = 0 THEN 29
    ELSE 28

CivilDays ==
    { c \in CivilYears \X (1..12) \X (1..31) : c[3] <= CivilMonthLength(c[1], c[2]) }

\* the day a text names in the form YYYY-MM-DD, if any
NamesDay(s, c) == s = DateStr(c[1], c[2], c[3])

IsCalendarDate(s) == \E c \in CivilDays : NamesDay(s, c)

DayOf(s) == CHOOSE c \in CivilDays : NamesDay(s, c)

\* c comes before d in the calendar
Precedes(c, d) ==
    \/ c[1] < d[1]
    \/ c[1] = d[1] /\ c[2] < d[2]
    \/ c[1] = d[1] /\ c[2] = d[2] /\ c[3] < d[3]

\* the number of the day c, counted in days from 1970-01-01
DayNumber(c) ==
    LET y   == IF c[2] <= 2 THEN c[1] - 1 ELSE c[1]
        era == y \div 400
        yoe == y - era * 400
        mp  == IF c[2] > 2 THEN c[2] - 3 ELSE c[2] + 9
        doy == (153 * mp + 2) \div 5 + c[3] - 1
        doe == yoe * 365 + yoe \div 4 - yoe \div 100 + doy
    IN  era * 146097 + doe - 719468

\* C10: validateDateRange accepts a pair exactly when both texts are
\* calendar dates in the form YYYY-MM-DD, until is not before since, and the
\* span from since to until is at most 730 days; equal dates are accepted.
C10_ValidateDateRangeIff ==
    dateOut[1] # "none" =>
        /\ dateOut[1] = "nil" <=>
               /\ IsCalendarDate(sinceDate)
               /\ IsCalendarDate(untilDate)
               /\ ~Precedes(DayOf(untilDate), DayOf(sinceDate))
               /\ DayNumber(DayOf(untilDate)) - DayNumber(DayOf(sinceDate)) <= 730
        /\ (IsCalendarDate(sinceDate) /\ sinceDate = untilDate) => dateOut[1] = "nil"

\* The spec's second example: since 2022-01-01, until 2024-06-01 is rejected
\* as too large a range.
C10_Witness ==
    /\ sinceDate = DateStr(2022, 1, 1)
    /\ untilDate = DateStr(2024, 6, 1)
    /\ dateOut[1] = "date range too large (max 2 years)"

(***************************************************************************)
(*                     Properties of the tool handlers                     *)
(***************************************************************************)

\* the error results that report a failed operation of the client
UpstreamFailures ==
    {"Failed to fetch budgets", "Failed to fetch budget", "Failed to fetch accounts",
     "Failed to fetch account", "Failed to fetch transactions",
     "Failed to fetch transaction", "Failed to create transaction",
     "Failed to update transaction", "Failed to fetch categories",
     "Failed to fetch category", "Failed to fetch payees"}

\* the call was rejected by a check of its arguments
RejectedLocally == result.isError /\ result.text \notin UpstreamFailures

\* a date argument that is a text
DateText(v) == v.t = "string" /\ v.s # <<>>

\* since and until are calendar dates, until is not before since and the
\* span is at most 730 days
WellFormedRange(since, until) ==
    /\ IsCalendarDate(since)
    /\ IsCalendarDate(until)
    /\ ~Precedes(DayOf(until), DayOf(since))
    /\ DayNumber(DayOf(until)) - DayNumber(DayOf(since)) <= 730

Required(name) ==
    CASE name = "list_budgets" -> {}
      [] name \in {"get_budget_details", "list_accounts", "list_transactions",
                   "list_categories", "list_payees", "get_budget_summary",
                   "get_account_balances"} -> {"budget_id"}
      [] name = "get_account_details" -> {"budget_id", "account_id"}
      [] name = "get_transaction" -> {"budget_id", "transaction_id"}
      [] name = "create_transaction" -> {"budget_id", "account_id", "date", "amount"}
      [] name = "update_transaction" -> {"budget_id", "transaction_id"}
      [] name = "get_category_details" -> {"budget_id", "category_id"}
      [] name \in {"get_spending_by_category", "get_payee_summary"} ->
             {"budget_id", "since_date", "until_date"}
      [] name = "get_spending_by_month" -> {"budget_id", "num_months"}

\* the keys whose text is held as a sequence of characters
DateKeys == {"since_date", "until_date", "date", "month"}

\* the key has no entry in the bag, or an empty one
MissingOrEmpty(key) ==
    \/ ~argsIsMap
    \/ callArgs[key].t = "absent"
    \/ /\ callArgs[key].t = "string"
       /\ IF key \in DateKeys THEN callArgs[key].s = <<>> ELSE callArgs[key].s = ""

\* C12 (as claimed): for every tool, an invocation in which a key the
\* schema requires is missing or empty returns an error result and asks
\* nothing of the client.
C12_RequiredKeysValidated ==
    tool # "none" =>
        \A key \in Required(tool) :
            MissingOrEmpty(key) => result.isError /\ issued = <<>>

(***************************************************************************)
(*                    Properties of the point lookups                      *)
(***************************************************************************)

\* the entities of a list result, those of all groups for categories
RECURSIVE Flattened(_, _)
Flattened(groups, g) ==
    IF g = 0 THEN <<>> ELSE Flattened(groups, g - 1) \o groups[g].Categories

EntitiesOf(made) ==
    IF made.op = "GetCategory" THEN Flattened(made.listed.data, Len(made.listed.data))
    ELSE made.listed.data

NotFoundKinds == {"account not found", "category not found", "payee not found"}

\* C13: a lookup returns an entity of the list with the requested ID whenever
\* the list holds one, soft-deleted or not; when the list holds none it
\* returns the not-found error carrying the requested ID; when the list call
\* failed it returns that error unchanged, which is never a not-found error.
C13_LookupOutcomes ==
    lookup.op # "none" =>
        LET all == EntitiesOf(lookup)
            held == \E i \in 1..Len(all) : all[i].ID = lookup.id
        IN  /\ (lookup.listed.err = NilErr /\ held) =>
                   /\ lookupRet.err = NilErr
                   /\ lookupRet.entity.ID = lookup.id
                   /\ \E i \in 1..Len(all) : all[i] = lookupRet.entity
            /\ (lookup.listed.err = NilErr /\ ~held) =>
                   /\ lookupRet.err.kind \in NotFoundKinds
                   /\ lookupRet.err.cause = lookup.id
            /\ lookup.listed.err # NilErr =>
                   /\ lookupRet.err = lookup.listed.err
                   /\ lookupRet.err.kind \notin NotFoundKinds

\* A soft-deleted account is returned by its ID.
C13_Witness ==
    /\ lookup.op = "GetAccount"
    /\ lookup.listed = ListOK(<<[ID |-> "e2", Deleted |-> FALSE],
                               [ID |-> "e1", Deleted |-> TRUE]>>)
    /\ lookup.id = "e1"
    /\ lookupRet = Found([ID |-> "e1", Deleted |-> TRUE])

\* the optional keys of the two writing tools whose value, when given, is
\* meant for the upstream (cleared of create_transaction has a documented
\* default and is left out)
OptionalKeys(name) ==
    IF name = "create_transaction" THEN {"payee_name", "category_id", "memo"}
    ELSE {"date", "amount", "payee_name", "category_id", "memo", "cleared"}

\* the caller supplied the key: a number for amount, a non-empty text else
SuppliedKey(key) ==
    IF key = "amount" THEN callArgs[key].t = "number"
    ELSE /\ callArgs[key].t = "string"
         /\ IF key \in DateKeys THEN callArgs[key].s # <<>> ELSE callArgs[key].s # ""

\* the value supplied, an amount in milliunits
SuppliedValue(key) == IF key = "amount" THEN callArgs[key].n ELSE callArgs[key].s

\* C14 (as claimed): the request create_transaction or update_transaction
\* sends holds an optional field if and only if the caller supplied it, and
\* then with the supplied value, an amount of 0 included.
C14_OptionalFieldsSentIffSupplied ==
    (tool \in {"create_transaction", "update_transaction"} /\ issued # <<>>) =>
        \A key \in OptionalKeys(tool) :
            /\ SuppliedKey(key) <=> key \in DOMAIN issued[1].body
            /\ SuppliedKey(key) => issued[1].body[key] = SuppliedValue(key)

\* the bound of the claim, in thousandths: 20 when top_n is no number,
\* else the larger of top_n and 1
ClaimedLimit ==
    IF topNArg.t = "number"
    THEN IF topNArg.n > 1000 THEN topNArg.n ELSE 1000
    ELSE defaultTopN * 1000

\* C15 (as claimed): get_payee_summary shows at most N payees, N being 20
\* without top_n and max(top_n, 1) with it, and shows every payee when there
\* are at most N.
C15_AtMostMaxTopN ==
    payeeDone =>
        /\ Len(payees) * 1000 <= ClaimedLimit
        /\ Len(payeeSummaries) * 1000 <= ClaimedLimit
               => Len(payees) = Len(payeeSummaries)

\* the bound in force: the whole part of top_n when that is 1 or more,
\* else 20
LimitInForce ==
    IF topNArg.t = "number" /\ topNArg.n >= 1000
    THEN topNArg.n \div 1000
    ELSE 20

\* the payees shown, as a set
Shown == {payees[i] : i \in 1..Len(payees)}

Summarised == {payeeSummaries[i] : i \in 1..Len(payeeSummaries)}

\* C15 (amended): get_payee_summary shows min(N, number of payees) payees, by
\* non-increasing total outflow and none with a smaller total than a payee
\* left out, where N is the whole part of top_n when top_n is a number of 1
\* or more and 20 otherwise (absent, no number, or below 1).
C15_AtMostTopN ==
    payeeDone =>
        /\ Len(payees) = IF Len(payeeSummaries) <= LimitInForce
                         THEN Len(payeeSummaries) ELSE LimitInForce
        /\ Shown \subseteq Summarised
        /\ Cardinality(Shown) = Len(payees)
        /\ \A i \in 1..Len(payees) - 1 :
               payees[i].TotalOutflow >= payees[i + 1].TotalOutflow
        /\ \A s \in Shown, m \in Summarised \ Shown :
               m.TotalOutflow <= s.TotalOutflow

\* C15 witness: top_n = 0 with more than 20 payees, of which 20 are shown.
C15_Witness ==
    /\ payeeDone
    /\ topNArg = NumArg(0)
    /\ Len(payeeSummaries) > 20
    /\ Len(payees) = 20

\* the call is inside doRequest
InFlight(c) == pc[c] \in {"loop", "send"}

\* the call is at the backoff sleep of a retry
Sleeping(c) == pc[c] = "loop" /\ attempt[c] > 0 /\ attempt[c] < 3

\* C16: two calls running concurrently on one client do not interfere: what
\* a call has counted, kept as last error, slept and returned is fixed by
\* its own request and the outcomes of its own attempts (two calls with the
\* same request and outcomes at the same point agree on all of it, however
\* their steps were interleaved), and a call in flight can always take its
\* next step, in particular while the other call sleeps in backoff.
C16_CallsDoNotInterfere ==
    \A c, d \in DOMAIN pc :
        /\ (req[c] = req[d] /\ log[c] = log[d] /\ pc[c] = pc[d]) =>
               /\ attempt[c] = attempt[d]
               /\ lastErr[c] = lastErr[d]
               /\ delays[c] = delays[d]
               /\ ret[c] = ret[d]
        /\ InFlight(c) => ENABLED (Backoff(c) \/ Send(c) \/ Exhausted(c))
        /\ pc[c] = "done" => ENABLED Call(c)

\* C16 witness: call 1 sleeps before its third attempt while call 2, which
\* met other outcomes, is in the middle of its second attempt.
C16_Witness ==
    /\ Sleeping(1)
    /\ attempt[1] = 2
    /\ pc[2] = "send"
    /\ Len(log[2]) = 1
    /\ log[1][1] # log[2][1]

\* the list without its soft-deleted entities, groups and categories alike
RECURSIVE LiveOnly(_)
LiveOnly(list) ==
    IF list = <<>> THEN <<>>
    ELSE LET head == list[1] IN
         IF head.Deleted THEN LiveOnly(Tail(list))
         ELSE IF "Categories" \in DOMAIN head
         THEN <<[head EXCEPT !.Categories = LiveOnly(@)]>> \o LiveOnly(Tail(list))
         ELSE <<head>> \o LiveOnly(Tail(list))

\* what the tool reports of the live entities alone
LiveReport ==
    CASE listing.op = "list_accounts" -> ListAccountsReport(LiveOnly(listing.data))
      [] listing.op = "list_payees" -> ListPayeesReport(LiveOnly(listing.data))
      [] listing.op = "list_transactions" ->
             ListTransactionsReport(LiveOnly(listing.data))
      [] listing.op = "list_categories" -> ListCategoriesReport(LiveOnly(listing.data))
      [] listing.op = "get_budget_details" ->
             GetBudgetReport([Accounts |-> LiveOnly(listing.data.Accounts),
                              CategoryGroups |-> LiveOnly(listing.data.CategoryGroups),
                              Payees |-> LiveOnly(listing.data.Payees)])

\* the live entities the upstream listed
HasLive(list) == \E i \in 1..Len(list) : ~list[i].Deleted

\* C17 (as claimed): a soft-deleted entity is neither shown nor counted: the
\* listing tools report of an upstream list exactly what they report of the
\* same list without its deleted entities (same counts, same entities shown,
\* same totals), as long as that list is not empty.
C17_DeletedNeverCounted ==
    (/\ listing.op # "none"
     /\ listing.op # "get_budget_details" => HasLive(listing.data)) =>
        report = LiveReport

\* C18 (as claimed): for every amount x of at most 3 decimals, positive or
\* negative, MilliunitsToFloat(FloatToMilliunits(x)) is x itself and
\* FloatToMilliunits(x) is x in thousandths (45.67 -> 45670 -> 45.67); and
\* the display value has the sign of the milliunits it was made from.
C18_RoundTripExact ==
    roundTrip.done =>
        /\ roundTrip.milliunits = roundTrip.k
        /\ FEq(roundTrip.back, roundTrip.x)
        /\ FNegative(roundTrip.back) <=> roundTrip.milliunits < 0
        /\ roundTrip.back.mag = MagZero <=> roundTrip.milliunits = 0

\* the request is to the MCP endpoint: a path under /mcp/
ToMCPEndpoint == Len(httpReq.path) >= 2 /\ httpReq.path[1] = "mcp"

\* the MCP handler was invoked
ReachedMCP == httpResp.by = "mcp"

\* the first Authorization value of the request is "Bearer <token>"
BearsToken ==
    /\ httpReq.header # <<>>
    /\ httpReq.header[1] = "Bearer " \o authToken

\* C19: with a non-empty auth token a request to the MCP endpoint reaches
\* the MCP handler if and only if its Authorization header is exactly
\* "Bearer <token>", and is answered 401 otherwise; /health and / are served
\* whatever the header and the token; with an empty token every request to
\* the MCP endpoint reaches the MCP handler; and no other request does.
C19_BearerTokenGuardsMCP ==
    httpResp # NoResponse =>
        /\ (ToMCPEndpoint /\ authToken # "") =>
               /\ ReachedMCP <=> BearsToken
               /\ ~ReachedMCP => httpResp.status = 401
        /\ (ToMCPEndpoint /\ authToken = "") => ReachedMCP
        /\ httpReq.path = <<"health">> => httpResp = Response(200, "health")
        /\ httpReq.path = <<"">> => httpResp = Response(200, "root")
        /\ ReachedMCP => ToMCPEndpoint

\* C19 witness: a request to /mcp/v1/messages whose header differs from the
\* expected one in the case of a letter is answered 401.
C19_Witness ==
    /\ authToken = "secret"
    /\ httpReq.path = <<"mcp", "v1", "messages">>
    /\ httpReq.header = <<"bearer secret">>
    /\ httpResp.status = 401
    /\ ~ReachedMCP

\* the config file was read and sets the key
FileSets(key) == startup.file.readable /\ key \in DOMAIN startup.file.content

\* a source provides the YNAB access token
TokenProvided ==
    \/ startup.env.YNAB_ACCESS_TOKEN # ""
    \/ startup.env.YNAB_MCP_YNAB_ACCESS_TOKEN # ""
    \/ FileSets("ynab_access_token")

\* the transport mode of the highest source that sets one
ModeByPrecedence ==
    IF "transport" \in startup.flags.changed THEN startup.flags.transport
    ELSE IF startup.env.YNAB_MCP_TRANSPORT_MODE # ""
    THEN startup.env.YNAB_MCP_TRANSPORT_MODE
    ELSE IF FileSets("transport_mode") THEN startup.file.content["transport_mode"]
    ELSE "stdio"

\* the port of the highest source that sets one (9100 is what the
\* environment of the model sets when it sets a number)
PortByPrecedence ==
    IF "port" \in startup.flags.changed THEN startup.flags.port
    ELSE IF startup.env.YNAB_MCP_HTTP_PORT # <<>> THEN 9100
    ELSE IF FileSets("http_port") THEN startup.file.content["http_port"]
    ELSE 8080

\* the environment names a port that is no number
PortGarbled ==
    /\ "port" \notin startup.flags.changed
    /\ startup.env.YNAB_MCP_HTTP_PORT = <<"a", "b">>

\* C20: flags take precedence over the environment, the environment over
\* the config file and the file over the defaults (stdio, port 8080): the
\* effective transport mode and port are those of the highest source that
\* sets them; without a YNAB access token from any source the server does
\* not start; and it serves only when the effective mode is stdio or http,
\* then in that mode and, for http, on the effective port.
C20_ConfigPrecedence ==
    startup.done =>
        /\ ~TokenProvided => (started.serving = "none" /\ started.err # "")
        /\ started.err = "" =>
               /\ started.cfg.TransportMode = ModeByPrecedence
               /\ ~PortGarbled => started.cfg.HTTPPort = PortByPrecedence
        /\ started.serving # "none" =>
               /\ started.err = ""
               /\ started.serving = ModeByPrecedence
               /\ (started.serving = "http" /\ ~PortGarbled) =>
                      started.port = PortByPrecedence
        /\ (started.err = "" /\ ModeByPrecedence \in {"stdio", "http"}) =>
               started.serving = ModeByPrecedence
        /\ ModeByPrecedence \notin {"stdio", "http"} => started.serving = "none"

\* C20 witness: the token comes from the file alone, the mode from the
\* environment over the file, the port from the flag over both: http on 9000.
C20_Witness ==
    /\ startup.done
    /\ startup.env.YNAB_ACCESS_TOKEN = ""
    /\ startup.env.YNAB_MCP_YNAB_ACCESS_TOKEN = ""
    /\ "transport" \notin startup.flags.changed
    /\ startup.env.YNAB_MCP_TRANSPORT_MODE = "http"
    /\ FileSets("transport_mode")
    /\ startup.file.content["transport_mode"] = "stdio"
    /\ startup.flags.changed = {"port"}
    /\ startup.flags.port = 9000
    /\ startup.env.YNAB_MCP_HTTP_PORT = <<"9", "1", "0", "0">>
    /\ started.serving = "http"
    /\ started.port = 9000

\* the bucket the specification puts a transaction in
CategoryBucket(tx) == IF tx.CategoryID = "" THEN "uncategorized" ELSE tx.CategoryID

PayeeBucket(tx) == IF tx.PayeeID = "" THEN "no-payee" ELSE tx.PayeeID

\* the included transactions of the list that belong in bucket b
Members(Bucket(_), b) ==
    {k \in 1..Len(txs) : NotExcluded(txs[k]) /\ Bucket(txs[k]) = b}

\* every included transaction is counted in the bucket of its key and in no
\* other, and every bucket has its key as ID and at least one transaction
OneBucketEach(Bucket(_), summaries) ==
    /\ \A k \in 1..Len(txs) : NotExcluded(txs[k]) => Bucket(txs[k]) \in DOMAIN summaries
    /\ \A b \in DOMAIN summaries :
           /\ summaries[b].ID = b
           /\ summaries[b].TransactionCount = Cardinality(Members(Bucket, b))
           /\ summaries[b].TransactionCount >= 1
    /\ TotalCount(summaries) = Len(Included(txs))

\* C21: category aggregation puts every included transaction in exactly one
\* bucket, that of its categoryID, an empty categoryID going to the bucket
\* "uncategorized" named "Uncategorized"; payee aggregation does the same by
\* payeeID with the bucket "no-payee" named "No Payee"; and no bucket is
\* without a transaction.
C21_OneBucketPerKey ==
    /\ aggOut.op = "category" =>
           /\ OneBucketEach(CategoryBucket, aggOut.summaries)
           /\ "uncategorized" \in DOMAIN aggOut.summaries =>
                  aggOut.summaries["uncategorized"].Name = "Uncategorized"
    /\ aggOut.op = "payee" =>
           /\ OneBucketEach(PayeeBucket, aggOut.summaries)
           /\ "no-payee" \in DOMAIN aggOut.summaries =>
                  aggOut.summaries["no-payee"].Name = "No Payee"

\* C21 witness: two transactions of one category and one without category
\* make the buckets "cat-1", of two, and "uncategorized", of one.
C21_Witness ==
    /\ aggOut.op = "category"
    /\ DOMAIN aggOut.summaries = {"cat-1", "uncategorized"}
    /\ aggOut.summaries["cat-1"].TransactionCount = 2
    /\ aggOut.summaries["uncategorized"].TransactionCount = 1
    /\ aggOut.summaries["uncategorized"].Name = "Uncategorized"

\* the included transactions month aggregation has to skip: the date is no
\* calendar date, or its month is not in the month list
Skipped(tx, months) ==
    /\ NotExcluded(tx)
    /\ \A i \in 1..Len(months) : ~FallsIn(tx, months[i])

\* C22: month aggregation skips a transaction whose date does not parse or
\* whose month is not in the month list: it adds no bucket and changes none
\* (the result is that of the list without the skipped transactions), and
\* every other included transaction is counted in the bucket of its month.
C22_BadDatesSkipped ==
    aggOut.op = "month" =>
        /\ DOMAIN aggOut.summaries = {aggOut.months[i] : i \in 1..Len(aggOut.months)}
        /\ aggOut.summaries =
               aggregateByMonth(SelectSeq(txs, LAMBDA tx : ~Skipped(tx, aggOut.months)),
                                aggOut.months)
        /\ \A m \in DOMAIN aggOut.summaries :
               aggOut.summaries[m].TransactionCount =
                   Cardinality({k \in 1..Len(txs) : FallsIn(txs[k], m)})

\* C22 witness: of three included transactions the first is dated on the
\* 30th of February, the second before the window, and the third is counted.
C22_Witness ==
    /\ aggOut.op = "month"
    /\ aggOut.months = <<MonthStr(2024, 2), MonthStr(2024, 3)>>
    /\ Len(txs) = 3
    /\ \A k \in 1..3 : NotExcluded(txs[k])
    /\ txs[1].Date = DateStr(2024, 2, 30)
    /\ txs[2].Date = DateStr(2024, 1, 15)
    /\ txs[3].Date = DateStr(2024, 2, 10)
    /\ aggOut.summaries[MonthStr(2024, 2)].TransactionCount = 1
    /\ aggOut.summaries[MonthStr(2024, 3)].TransactionCount = 0

\* the list is in descending order of total outflow
Descending(list) ==
    \A i \in 1..Len(list) : \A j \in i..Len(list) :
        list[i].TotalOutflow >= list[j].TotalOutflow

\* the number of places of the list that hold the entry e
Places(list, e) == Cardinality({i \in 1..Len(list) : list[i] = e})

\* C23: the category list and the payee list are in descending order of
\* total outflow; the category list holds every summary once, and no payee
\* left out by the limit has a larger total outflow than a returned one.
C23_SortedByOutflow ==
    /\ categoryDone =>
           /\ Descending(categoryList)
           /\ Len(categoryList) = Len(categorySummaries)
           /\ \A k \in 1..Len(categorySummaries) :
                  Places(categoryList, categorySummaries[k]) = 1
    /\ payeeDone =>
           /\ Descending(payees)
           /\ \A k \in 1..Len(payeeSummaries) :
                  Places(payees, payeeSummaries[k]) = 0 =>
                      /\ Len(payees) = TopN(topNArg)
                      /\ \A i \in 1..Len(payees) :
                             payeeSummaries[k].TotalOutflow <= payees[i].TotalOutflow

\* C23 witness: three payees in ascending order of outflow limited to the
\* two largest, the larger first.
C23_Witness ==
    /\ payeeDone
    /\ Len(payeeSummaries) = 3
    /\ payeeSummaries[1].TotalOutflow = 0
    /\ payeeSummaries[2].TotalOutflow = 1000
    /\ payeeSummaries[3].TotalOutflow = 2500
    /\ payees = <<payeeSummaries[3], payeeSummaries[2]>>

\* the month that lies k months before the month of t, as a month string
MonthBefore(t, k) ==
    LET total == t.year * 12 + (t.month - 1) - k
    IN  MonthStr(total \div 12, (total % 12) + 1)

\* C24: getLastNMonths(n), n in 1..24, returns n pairwise distinct months,
\* consecutive and in chronological order, the last one the current month,
\* on every day of the month.
C24_ConsecutiveMonths ==
    (window.done /\ window.n \in 1..maxMonths) =>
        /\ Len(window.months) = window.n
        /\ \A i \in 1..window.n : \A j \in 1..window.n :
               i # j => window.months[i] # window.months[j]
        /\ \A j \in 1..window.n :
               window.months[j] = MonthBefore(clock, window.n - j)

\* what the call returns when attempt k was its last
ParseError(c) == ret[c].err = MkErr("failed to parse response", "json")

EndsWith(c, k) ==
    /\ k = Len(log[c])
    /\ pc[c] = "done"
    /\ Len(delays[c]) = k - 1
    /\ IF ~req[c].hasResult THEN ret[c] = RetOK(FALSE)
       ELSE IF log[c][k].body.dataParse THEN ret[c] = RetOK(TRUE)
       ELSE ParseError(c) /\ ~ret[c].decoded

\* C25 (as claimed): an attempt that received a status below 400 is the last
\* of the call; without a result the call succeeds, with one it succeeds if
\* the body deserializes and returns the parse error otherwise.
C25_AnySuccessTerminal ==
    \A c \in DOMAIN pc : \A k \in 1..Len(log[c]) :
        (log[c][k].kind \in {"resp", "readerr"} /\ log[c][k].status < 400) =>
            EndsWith(c, k)

\* C25 (amended): the same for every response whose body was read in full:
\* a status below 400 ends the call on that attempt, in success when no
\* result is wanted or the body deserializes, in the parse error otherwise,
\* and no delay or attempt follows.
C25_ReadSuccessTerminal ==
    \A c \in DOMAIN pc : \A k \in 1..Len(log[c]) :
        (log[c][k].kind = "resp" /\ log[c][k].status < 400) => EndsWith(c, k)

\* C25 witness: a call without a result succeeds on its second attempt on a
\* 200 whose body does not deserialize.
C25_Witness ==
    /\ pc[1] = "done"
    /\ ~req[1].hasResult
    /\ Len(log[1]) = 2
    /\ log[1][2].kind = "resp"
    /\ log[1][2].status = 200
    /\ ~log[1][2].body.dataParse
    /\ ret[1] = RetOK(FALSE)

\* the date of the transaction parses and lies in the window, both ends
\* included
InWindow(tx, since, until) ==
    /\ parseDate(tx.Date).ok
    /\ parseDate(since).abs <= parseDate(tx.Date).abs
    /\ parseDate(tx.Date).abs <= parseDate(until).abs

\* the included transactions of the upstream list dated in the window
Contributing(since, until) ==
    {k \in 1..Len(txs) : NotExcluded(txs[k]) /\ InWindow(txs[k], since, until)}

\* C26: in get_spending_by_category and get_payee_summary the buckets hold
\* exactly the included transactions of the upstream list dated from
\* since_date to until_date: every transaction handed to the aggregation has
\* such a date, whatever list the upstream returned.
C26_WithinRange ==
    ranged.op # "none" =>
        /\ \A k \in 1..Len(ranged.filtered) :
               InWindow(ranged.filtered[k], ranged.since, ranged.until)
        /\ TotalCount(ranged.summaries) =
               Cardinality(Contributing(ranged.since, ranged.until))

\* The upper end alone: no transaction dated after until_date and none whose
\* date does not parse is handed to the aggregation, and every other
\* included transaction is counted.
NotAfterUntil ==
    ranged.op # "none" =>
        /\ \A k \in 1..Len(ranged.filtered) :
               /\ parseDate(ranged.filtered[k].Date).ok
               /\ parseDate(ranged.filtered[k].Date).abs <= parseDate(ranged.until).abs
        /\ TotalCount(ranged.summaries) =
               Cardinality({k \in 1..Len(txs) :
                   /\ NotExcluded(txs[k])
                   /\ parseDate(txs[k].Date).ok
                   /\ parseDate(txs[k].Date).abs <= parseDate(ranged.until).abs})

\* Client.CreateTransaction: c.post(path, req, &resp) with a well-formed path
CreateTransactionCall ==
    [method |-> "POST", hasBody |-> TRUE, pathOK |-> TRUE, hasResult |-> TRUE]

\* The attempts of the call that the upstream has processed: it answered
\* them with a status below 400, whether or not the body of the answer could
\* be read afterwards.  The request carries no import_id, so the upstream
\* creates a transaction for each of them.
ProcessedUpstream(c) ==
    {k \in 1..Len(log[c]) :
        log[c][k].kind \in {"resp", "readerr"} /\ log[c][k].status < 400}

\* C27: one CreateTransaction call creates at most one transaction upstream,
\* whatever the outcomes of its attempts are.
C27_AtMostOneCreated ==
    \A c \in DOMAIN pc :
        (pc[c] # "idle" /\ req[c] = CreateTransactionCall) =>
            Cardinality(ProcessedUpstream(c)) <= 1

\* the third attempt of the call has failed with a retryable error
ThirdFailed(c) == Len(log[c]) = 3 /\ RetryableFailure(log[c][3])

MinorUnits(x) ==
    LET m == MagAdd(MagMulSmall(x.mag, 1000), MagPow2(FracBits - 1))
        whole == (m[4] + m[5] * LimbBase) \div 16
    IN  IF x.neg THEN -whole ELSE whole

RECURSIVE AmountsOver(_, _)
AmountsOver(list, n) ==
    IF n = 0 THEN [net |-> 0, outflow |-> 0, inflow |-> 0]
    ELSE LET rest == AmountsOver(list, n - 1)
             a == list[n].Amount
         IN  [net |-> rest.net + a,
              outflow |-> rest.outflow + (IF a < 0 THEN -a ELSE 0),
              inflow |-> rest.inflow + (IF a > 0 THEN a ELSE 0)]

\* the counts and the sums of the buckets, the sums in minor units, with the
\* buckets added up in the given order
GroupingTotals(summaries, order) ==
    [count |-> TotalCount(summaries),
     net |-> MinorUnits(FSumNet(summaries, order, Len(order))),
     outflow |-> MinorUnits(FSumOutflow(summaries, order, Len(order))),
     inflow |-> MinorUnits(FSumInflow(summaries, order, Len(order)))]

\* the same of the included transactions themselves
ListTotals(list) ==
    LET sums == AmountsOver(Included(list), Len(Included(list)))
    IN  [count |-> Len(Included(list)), net |-> sums.net,
         outflow |-> sums.outflow, inflow |-> sums.inflow]

\* C29: the category buckets and the payee buckets of a transaction list
\* account for the same transactions: the counts of either grouping add up
\* to the number of non-deleted, non-transfer transactions, and the sums of
\* net, total outflow and total inflow of either grouping, in minor units,
\* are those of these transactions, hence equal across the groupings.
C29_GroupingsAgree ==
    aggOut.op \in {"category", "payee"} =>
        LET other == IF aggOut.op = "category" THEN aggregateByPayee(txs)
                     ELSE aggregateByCategory(txs)
        IN  /\ \A order \in Orders(DOMAIN aggOut.summaries) :
                   GroupingTotals(aggOut.summaries, order) = ListTotals(txs)
            /\ \A order \in Orders(DOMAIN other) :
                   GroupingTotals(other, order) = ListTotals(txs)

\* C29 witness: three included transactions in two category buckets and two
\* other payee buckets: -700 and 100 of cat-1 / payee-1 and no payee, and
\* 100 uncategorized of payee-1.
C29_Witness ==
    /\ aggOut.op = "category"
    /\ Len(txs) = 3
    /\ \A k \in 1..3 : NotExcluded(txs[k])
    /\ DOMAIN aggOut.summaries = {"cat-1", "uncategorized"}
    /\ DOMAIN aggregateByPayee(txs) = {"payee-1", "no-payee"}
    /\ aggOut.summaries["cat-1"].TransactionCount = 2
    /\ aggregateByPayee(txs)["payee-1"].TransactionCount = 2
    /\ aggregateByPayee(txs)["no-payee"].TransactionCount = 1
    /\ ListTotals(txs).net = -500

\* The float64 sums themselves, compared bit for bit across the groupings.
FloatSumsAgree ==
    aggOut.op = "category" =>
        \A oc \in Orders(DOMAIN aggOut.summaries) :
            \A op \in Orders(DOMAIN aggregateByPayee(txs)) :
                FEq(FSumNet(aggOut.summaries, oc, Len(oc)),
                    FSumNet(aggregateByPayee(txs), op, Len(op)))

\* the on budget total, off budget total and net worth of a report, in
\* minor units
Totals(on, off, net) == [onBudget |-> on, offBudget |-> off, netWorth |-> net]

\* as get_account_balances reports them for the list
BalancesTotals(list) ==
    LET bal == BalancesResult(list)
    IN  Totals(MinorUnits(bal.total_on_budget), MinorUnits(bal.total_off_budget),
               MinorUnits(bal.net_worth))

\* as get_budget_details reports them for the list
DetailsTotals(list) ==
    LET lines == BudgetAccountsLoop(list, 1,
                     [shown |-> <<>>, onBudgetBalance |-> 0, offBudgetBalance |-> 0])
    IN  Totals(lines.onBudgetBalance, lines.offBudgetBalance,
               lines.onBudgetBalance + lines.offBudgetBalance)

\* C30: for every account list the on budget total, the off budget total
\* and the net worth of list_accounts are, in minor units, those of
\* get_account_balances and of get_budget_details for the same accounts.
C30_SameTotals ==
    (listing.op = "list_accounts" /\ report.text = "Found") =>
        LET listed == Totals(report.onBudgetTotal, report.offBudgetTotal,
                             report.onBudgetTotal + report.offBudgetTotal)
        IN  /\ listed = BalancesTotals(listing.data)
            /\ listed.onBudget = DetailsTotals(listing.data).onBudget
            /\ listed.offBudget = DetailsTotals(listing.data).offBudget

\* get_account_balances and get_budget_details agree with each other, and
\* list_accounts agrees with both on lists without a closed account.
TotalsAgreeWhenOpen ==
    (listing.op = "list_accounts" /\ report.text = "Found") =>
        /\ BalancesTotals(listing.data) = DetailsTotals(listing.data)
        /\ (\A i \in 1..Len(listing.data) :
                listing.data[i].Deleted \/ ~listing.data[i].Closed) =>
               Totals(report.onBudgetTotal, report.offBudgetTotal,
                      report.onBudgetTotal + report.offBudgetTotal)
                   = DetailsTotals(listing.data)

====
